---- MODULE Spec2Model ----
(***************************************************************************)
(* Model of the roc CLI (src/internal/cli).  The log session of logs.go:   *)
(* the command surface (NewLogsCmd), the job context and its refresh loop  *)
(* (LogFetcher.Init), the two fetcher goroutines (LogFetcher.streamLogs),  *)
(* the collector (logCollector.add) and the session driver                 *)
(* (LogFetcher.FetchLogs); resource discovery (discovery.go); the          *)
(* interrupt and connect commands (interrupt.go, connect.go); the stack    *)
(* doctor (doctor.go); the verdicts of lint (lint.go).  Times are in       *)
(* milliseconds.                                                           *)
(***************************************************************************)
EXTENDS Integers, Sequences, FiniteSets, TLC

(* ---------------------------- bounds ----------------------------------- *)
NumEvents == 3        \* size of the universe of log events
MaxIterations == 2    \* iterations of the loop of streamLogs, per fetcher
MaxTime == 5000       \* milliseconds of the session that are modelled
MaxPageLen == 1       \* events in one page
MaxPages == 2         \* pages in one poll
SessionStart == 10000000  \* time.Now() when the command starts
MaxPathLen == 4       \* lexemes in the path of a job token
MaxResources == 3     \* resources in a listing of the tagging API

(* ------------------------ program constants ---------------------------- *)
eventChCap == 100             \* make(chan logEvent, 100)
CursorEpsilonMs == 1000       \* time.Now().UnixMilli() - 1000
CreatedAtSlackMs == 10000     \* CreatedAt.UnixMilli() - 10000
DefaultWatchIntervalMs == 5000    \* watchInterval := 5 * time.Second
DefaultSinceMs == 7200000     \* time.Now().Add(-2 * time.Hour)
RefreshIntervalMs == 5000     \* time.NewTicker(5 * time.Second)

Nil == -1
Sources == {"instance", "application"}
EventIds == 1..NumEvents

\* The log group an event is in: odd ids are application events, even ids
\* instance events.
SourceOf(e) == IF e % 2 = 1 THEN "application" ELSE "instance"

\* The source-assigned timestamp of an event: event 1 is 900 ms older than
\* the session, and events 2k and 2k+1 have the same timestamp, 600 ms
\* after the pair before.
Timestamp(e) == SessionStart - 900 + 600 * (e \div 2)

\* The queued webhook of the job, as stored in the state bucket.
QueuedJob == [CreatedAt |-> SessionStart - 60000, ID |-> 7, RunID |-> 9]
NilJob == [CreatedAt |-> Nil, ID |-> Nil, RunID |-> Nil]
TheInstance == "i-1"

VARIABLES
  opts,                 \* LogOptions: Watch, WatchInterval, StartTime
  now,                  \* the wall clock
  cancelled,            \* ctx.Done() is closed
  workflowJob,          \* f.workflowJob (NilJob when nil)
  instanceID,           \* f.instanceID
  refreshPc,            \* the refresh goroutine: "running" | "exited"
  refreshAt,            \* the next tick of the refresh goroutine's ticker
  pc,                   \* per fetcher: "loop" | "page" | "sleep" | "returned"
  StartTime,            \* per fetcher: input.StartTime (Nil when nil)
  lastTimestamp,        \* per fetcher: lastTimestamp of the current poll
  firstPassDone,        \* per fetcher: the local pastEventsCollected of streamLogs
  pageEvents,           \* per fetcher: events of output.Events not yet ranged over
  pagesLeft,            \* per fetcher: pages the paginator can still return
  wakeAt,               \* per fetcher: end of time.Sleep
  err,                  \* per fetcher: return value of streamLogs ("-" while running)
  events,               \* collector.events
  seenEvents,           \* collector.seenEvents
  eventCh,              \* collector.eventCh
  pastEventsCollected,  \* collector.pastEventsCollected
  wg,                   \* collector.wg counter
  mu,                   \* collector.mu: "free" | "driver" | a fetcher
  dpc,                  \* driver: "wait" | "print" | "live" | "returned"
  result,               \* return value of FetchLogs ("-" while running)
  printed,              \* stdout: sequence of [id, phase]
  arrival,              \* history: events in the order the collector accepted them
  discarded,            \* history: the id add last dropped as already seen (0: none)
  pollStarts,           \* history: per fetcher, the StartTime of each poll issued
  iterations,           \* history: per fetcher, iterations of the loop started
  everResolved,         \* history: instanceID has been non-empty
  lastRefresh,          \* history: the latest tick of the refresh goroutine, whether
                        \* it fetched the workflow job and what the GetObject of
                        \* the instance id did ("failed" | "returned")
  useRunFilter,         \* f.useRunFilter (the --run flag)
  runID,                \* f.runID
  filterPattern,        \* input.FilterPattern of the latest application poll
  logStreamNamePrefix,  \* input.LogStreamNamePrefix of the latest instance poll
  updateErr,            \* per fetcher: the latest error updateInput returned
  stage,                \* RunE: "start" | "configured" | "extracted" | "session" | "failed"
  token,                \* args[0]
  jobID,                \* f.jobID
  setupErr,             \* the error RunE returned before FetchLogs ("-": none)
  resources,            \* the pages the tagging API returns to discoverResources
  config,               \* the *RunsOnConfig discoverResources returned
  discoverErr,          \* the error discoverResources returned ("-": not called)
  command,              \* the command RunE belongs to: "interrupt" | "connect" | "-"
  wait,                 \* the --wait flag of interrupt, the --watch flag of connect
  clean,                \* the --clean flag of interrupt
  skipChecks,           \* the --skip-checks flag of interrupt
  ipc,                  \* RunE of interrupt and connect: "idle" | "lookup" | "sleep" |
                        \* "identity" | "preflight" | "validate" | "create" |
                        \* "monitor" | "describe" | "returned"
  lookups,              \* history: the GetObject calls of the lookup loop, [at, outcome]
  lookupWake,           \* end of the time.Sleep of the lookup loop
  jobInstanceID,        \* the local instanceID of RunE ("-" while not assigned)
  described,            \* what DescribeInstances reported: <<>> (not called) or <<i>>
  roleCreated,          \* CreateRole has made the FIS role
  templates,            \* experiment templates CreateExperimentTemplate has made
  deleteAttempts,       \* calls of DeleteExperimentTemplate
  experiment,           \* the experiment: "none" | "started" | its latest status
  polls,                \* GetExperiment calls that found the experiment in progress
  cmdErr,               \* the error RunE returned ("-" while running)
  docPc,                \* StackDoctor.Run: "idle" | "run" | "outputs" | "checks" |
                        \* "save" | "zip" | "returned"
  workspace,            \* the files in d.workDir (<<>>: no directory, <<files>>)
  doctorOutputs,        \* d.outputs: <<>> (nil) or <<keys>>
  ran,                  \* history: the checks Run has called, [name, status]
  zip,                  \* the archive: <<>> (not created) or <<entries>>
  docErr,               \* the error Run returned ("-" while running)
  diags,                \* the severities of a list of validate.Diagnostic
  lintResult,           \* <<>> or <<[hasErrors, valid]>>: the verdicts on diags
  instanceIDs,          \* the argument instanceIDs of batchInstances
  batchSize,            \* the argument size of batchInstances
  instanceIDBatches     \* <<>> (not called) or <<batches>>: what it returned

setupVars == <<useRunFilter, runID, stage, token, jobID, setupErr, resources,
              config, discoverErr>>
interruptVars == <<command, wait, clean, skipChecks, ipc, lookups, lookupWake,
                  jobInstanceID, described, roleCreated, templates,
                  deleteAttempts, experiment, polls, cmdErr>>
doctorVars == <<docPc, workspace, doctorOutputs, ran, zip, docErr>>
lintVars == <<diags, lintResult>>
batchVars == <<instanceIDs, batchSize, instanceIDBatches>>
toolVars == <<interruptVars, doctorVars, lintVars, batchVars>>
ctxVars == <<opts, now, cancelled, workflowJob, instanceID, refreshPc, refreshAt,
            everResolved, lastRefresh, setupVars, toolVars>>
inputVars == <<filterPattern, logStreamNamePrefix, updateErr>>
fetchVars == <<pc, StartTime, lastTimestamp, firstPassDone, pageEvents,
               pagesLeft, wakeAt, err, pollStarts, iterations, inputVars>>
collVars == <<events, seenEvents, eventCh, pastEventsCollected, wg, mu,
              arrival, discarded>>
drvVars == <<dpc, result, printed>>
vars == <<ctxVars, fetchVars, collVars, drvVars>>

(* ----------------------------- strings -------------------------------- *)
\* A string the code takes apart is a sequence of lexemes: the separators
\* the code looks for ("/", ":", "?", ":::") are lexemes of their own and
\* the text between them is cut into words.  The empty string is <<>>.
Range(seq) == {seq[i] : i \in DOMAIN seq}

\* strings.Index for a one-lexeme separator: the first position of sep in
\* seq, 0 when there is none.
Index(seq, sep) ==
  IF sep \in Range(seq)
  THEN CHOOSE i \in DOMAIN seq :
         seq[i] = sep /\ \A j \in 1..(i - 1) : seq[j] # sep
  ELSE 0

\* strings.HasPrefix.
HasPrefix(seq, prefix) ==
  Len(seq) >= Len(prefix) /\ SubSeq(seq, 1, Len(prefix)) = prefix

\* strings.Contains.
Contains(seq, sub) ==
  \E i \in 1..(Len(seq) - Len(sub) + 1) : SubSeq(seq, i, i + Len(sub) - 1) = sub

\* strings.Split(seq, sep): the pieces between the occurrences of sep; one
\* piece (seq itself) when sep does not occur.
RECURSIVE Split(_, _)
Split(seq, sep) ==
  IF Index(seq, sep) = 0 THEN <<seq>>
  ELSE <<SubSeq(seq, 1, Index(seq, sep) - 1)>>
         \o Split(SubSeq(seq, Index(seq, sep) + 1, Len(seq)), sep)

\* fmt.Sprintf("%d", n) for n >= 0.
Digits == <<"0", "1", "2", "3", "4", "5", "6", "7", "8", "9">>
RECURSIVE Itoa(_)
Itoa(n) ==
  IF n < 10 THEN Digits[n + 1] ELSE Itoa(n \div 10) \o Digits[(n % 10) + 1]

(* ----------------------------- job token ------------------------------- *)
\* The tokens given on the command line: an optional scheme, an optional
\* authority, a path of at most MaxPathLen lexemes and an optional query.
Schemes == {<<>>, <<"https", ":">>, <<"http", ":">>}
Authorities == {<<>>, <<"/", "/", "github.com">>}
PathsOfLen(n) == [1..n -> {"/", "job", "34"}]
Paths == UNION {PathsOfLen(n) : n \in 0..MaxPathLen}
Queries == {<<>>, <<"?", "pr=1">>}
Tokens ==
  {sch \o auth \o path \o q :
     sch \in Schemes, auth \in Authorities, path \in Paths, q \in Queries}

\* The deep link of the README: .../job/34?pr=1.
DeepLink == <<"https", ":", "/", "/", "github.com", "/", "job", "/", "34", "?", "pr=1">>

\* net/url.Parse on a token: the scheme, the query cut off at the first
\* "?", then an opaque rest, or an authority after "//" and the path.
urlParse(input) ==
  LET missingScheme == Len(input) >= 1 /\ input[1] = ":"
      hasScheme == Len(input) >= 2 /\ input[1] \notin {"/", ":", "?"} /\ input[2] = ":"
      scheme == IF hasScheme THEN input[1] ELSE ""
      afterScheme == IF hasScheme THEN SubSeq(input, 3, Len(input)) ELSE input
      q == Index(afterScheme, "?")
      rest == IF q = 0 THEN afterScheme ELSE SubSeq(afterScheme, 1, q - 1)
      rawQuery == IF q = 0 THEN <<>> ELSE SubSeq(afterScheme, q + 1, Len(afterScheme))
      rooted == HasPrefix(rest, <<"/">>)
      opaque == scheme # "" /\ ~rooted
      colonInFirstSegment ==
        /\ scheme = "" /\ ~rooted
        /\ ":" \in Range(Split(rest, "/")[1])
      hasAuthority ==
        /\ HasPrefix(rest, <<"/", "/">>)
        /\ (scheme # "" \/ ~HasPrefix(rest, <<"/", "/", "/">>))
      afterSlashes == SubSeq(rest, 3, Len(rest))
      a == Index(afterSlashes, "/")
      host == IF ~hasAuthority THEN <<>>
              ELSE IF a = 0 THEN afterSlashes ELSE SubSeq(afterSlashes, 1, a - 1)
      path == IF opaque THEN <<>>
              ELSE IF ~hasAuthority THEN rest
              ELSE IF a = 0 THEN <<>> ELSE SubSeq(afterSlashes, a, Len(afterSlashes))
  IN [err |-> missingScheme \/ colonInFirstSegment,
      Scheme |-> scheme, Opaque |-> IF opaque THEN rest ELSE <<>>,
      Host |-> host, Path |-> path, RawQuery |-> rawQuery]

\* Mutant of extractJobID: the first piece of the path, not the last.
extractJobIDFirstPart(input) ==
  LET url == urlParse(input)
      parts == Split(url.Path, "/")
  IN IF ~url.err /\ url.Scheme = "https" /\ Len(parts) > 1
     THEN parts[1] ELSE input

\* extractJobID, lines 430-443.
extractJobID(input) ==
  LET url == urlParse(input)
      parts == Split(url.Path, "/")
  IN IF ~url.err /\ url.Scheme = "https" /\ Len(parts) > 1
     THEN parts[Len(parts)] ELSE input

(* ------------------------ command surface ------------------------------ *)
\* time.ParseDuration on the durations the model passes on the command line.
ParseDuration(str) ==
  CASE str = "500ms" -> 500
    [] str = "5s" -> 5000
    [] str = "30m" -> 1800000
    [] str = "2h" -> DefaultSinceMs

\* Command lines: <<--watch value ("" when the flag is absent), --since value>>.
Invocations == {<<"", "30m">>, <<"500ms", "2h">>, <<"5s", "2h">>}

\* NewLogsCmd.RunE: the LogOptions built from the flags.
LogOptions(watchDuration, since) ==
  LET startTime == IF since # "" THEN SessionStart - ParseDuration(since)
                   ELSE SessionStart - DefaultSinceMs
      watch == watchDuration # ""
      watchInterval == IF watch /\ watchDuration # "true"
                       THEN ParseDuration(watchDuration)
                       ELSE DefaultWatchIntervalMs
  IN [Watch |-> watch, WatchInterval |-> watchInterval, StartTime |-> startTime]

(* --------------------------- collector --------------------------------- *)
\* Mutant of Seen: add without the seenEvents lookup.
SeenNever(e) == FALSE

\* logCollector.add line 239: the id is already in seenEvents.
Seen(e) == e \in seenEvents

\* Mutant of ToBacklog: the phase is read off the barrier, not off the flag
\* the driver sets after printing.
ToBacklogUntilBarrier == wg > 0

\* logCollector.add line 244: the event goes to the backlog buffer.
ToBacklog == ~pastEventsCollected

\* Mutant of sortSlice: the backlog is printed as it arrived.
sortSliceOmitted(seq) == {seq}

\* sort.Slice by timestamp (not stable): every ordering of seq that is
\* non-decreasing in timestamp.
Perms(n) == {p \in [1..n -> 1..n] : \A i, j \in 1..n : i # j => p[i] # p[j]}
sortSlice(seq) ==
  {[i \in 1..Len(seq) |-> seq[p[i]]] :
     p \in {q \in Perms(Len(seq)) :
              \A i \in 1..(Len(seq) - 1) :
                 Timestamp(seq[q[i]]) <= Timestamp(seq[q[i + 1]])}}

\* logCollector.add, called by fetcher s with event e.  A send on a full
\* channel blocks with the mutex held: mu stays with s until there is room.
add(s, e) ==
  /\ mu = "free" \/ mu = s
  /\ IF mu = "free" /\ Seen(e)
     THEN /\ discarded' = e
          /\ UNCHANGED <<events, seenEvents, eventCh, mu, arrival>>
     ELSE /\ seenEvents' = seenEvents \cup {e}
          /\ UNCHANGED discarded
          /\ IF ToBacklog
             THEN /\ events' = Append(events, e)
                  /\ arrival' = Append(arrival, e)
                  /\ mu' = "free"
                  /\ UNCHANGED eventCh
             ELSE IF Len(eventCh) < eventChCap
             THEN /\ eventCh' = Append(eventCh, e)
                  /\ arrival' = Append(arrival, e)
                  /\ mu' = "free"
                  /\ UNCHANGED events
             ELSE /\ mu' = s
                  /\ UNCHANGED <<events, eventCh, arrival>>
  /\ UNCHANGED <<pastEventsCollected, wg>>

(* ---------------------------- sources ---------------------------------- *)
\* FilterLogEvents: the events source s can return for a window that starts
\* at start: its own, not older than start, and already emitted.
SourceEvents(s, start) ==
  {e \in EventIds : SourceOf(e) = s /\ Timestamp(e) >= start /\ Timestamp(e) <= now}

\* The pages source s can return: sequences of distinct events.
Pages(s, start) ==
  {p \in UNION {[1..n -> SourceEvents(s, start)] : n \in 0..MaxPageLen} :
     \A i, j \in DOMAIN p : i # j => p[i] # p[j]}

(* ---------------------------- fetchers --------------------------------- *)
\* Mutant of instanceUpdateErr: no check of the instance id.
instanceUpdateErrJobOnly == workflowJob = NilJob

\* updateInput of streamInstanceLogs returns an error.
instanceUpdateErr == workflowJob = NilJob \/ instanceID = ""

\* updateInput of the application fetcher returns an error.
applicationUpdateErr == workflowJob = NilJob

updateInputErr(s) ==
  IF s = "instance" THEN instanceUpdateErr ELSE applicationUpdateErr

\* The error updateInput returns (lines 334, 337, 376).
updateInputError(s) ==
  IF workflowJob = NilJob THEN "workflow job queued event not found yet"
  ELSE IF s = "instance" /\ instanceID = "" THEN "instance ID not available yet"
  ELSE "nil"

\* Lines 366-370: the clause of the filter that selects the job.
jobClause ==
  IF useRunFilter
  THEN [field |-> "run_id", value |-> runID]
  ELSE [field |-> "job_id", value |-> Itoa(workflowJob.ID)]

\* Mutant of applicationFilter: the instance id is never mentioned.
applicationFilterJobOnly == <<jobClause>>

\* Lines 364-382: the filter pattern of an application poll, as the list of
\* the clauses that are joined with "||".
applicationFilter ==
  <<jobClause>> \o
    (IF instanceID # ""
     THEN <<[field |-> "message", value |-> "*" \o instanceID \o "*"]>>
     ELSE <<>>)

\* Lines 367, 369 and 380: the text of one clause.
clauseString(c) == "( $." \o c.field \o " = \"" \o c.value \o "\" )"

\* Line 382: strings.Join(filterPatterns, " || ") between braces.
RECURSIVE Join(_, _)
Join(elems, sep) ==
  IF elems = <<>> THEN ""
  ELSE IF Len(elems) = 1 THEN elems[1]
  ELSE elems[1] \o sep \o Join(Tail(elems), sep)
FilterPattern(clauses) ==
  "{ " \o Join([i \in DOMAIN clauses |-> clauseString(clauses[i])], " || ") \o " }"

\* Line 340: the log stream prefix of an instance poll.
instancePrefix == instanceID \o "/"

\* Both updateInput closures: StartTime is set when nil and the job is known.
updateStartTime(s) ==
  IF workflowJob # NilJob /\ StartTime[s] = Nil
  THEN workflowJob.CreatedAt - CreatedAtSlackMs
  ELSE StartTime[s]

\* Mutant of nextStartTime: the cursor follows the last event and never
\* falls back on the clock.
nextStartTimeLastOnly(last) == last + 1

\* streamLogs lines 301-305: the StartTime of the next poll.
nextStartTime(last) ==
  IF last > 0 THEN last + 1 ELSE now - CursorEpsilonMs

\* paginator.HasMorePages(): the first page, or a page with a next token.
HasMorePages(s) == pagesLeft[s] > 0

\* The process lives until FetchLogs returns to RunE and main.
Running == dpc # "returned"

\* Mutant of doneStreaming: the first pass is not signalled to the driver.
doneStreamingUnsignalled(s) ==
  /\ firstPassDone' = [firstPassDone EXCEPT ![s] = TRUE]
  /\ wg' = wg
  /\ IF ~opts.Watch
     THEN /\ pc' = [pc EXCEPT ![s] = "returned"]
          /\ err' = [err EXCEPT ![s] = "nil"]
          /\ UNCHANGED wakeAt
     ELSE /\ pc' = [pc EXCEPT ![s] = "sleep"]
          /\ wakeAt' = [wakeAt EXCEPT ![s] = now + opts.WatchInterval]
          /\ UNCHANGED err

\* streamLogs lines 309-317: signal the first pass once, then return
\* (one-shot) or sleep for the watch interval.
doneStreaming(s) ==
  /\ firstPassDone' = [firstPassDone EXCEPT ![s] = TRUE]
  /\ wg' = IF ~firstPassDone[s] THEN wg - 1 ELSE wg
  /\ IF ~opts.Watch
     THEN /\ pc' = [pc EXCEPT ![s] = "returned"]
          /\ err' = [err EXCEPT ![s] = "nil"]
          /\ UNCHANGED wakeAt
     ELSE /\ pc' = [pc EXCEPT ![s] = "sleep"]
          /\ wakeAt' = [wakeAt EXCEPT ![s] = now + opts.WatchInterval]
          /\ UNCHANGED err

\* streamLogs lines 258-264 and 309-317: an iteration of the loop starts
\* (the first one, or when time.Sleep is over): build the input; on error
\* skip the poll and finish the iteration.
StartIteration(s) ==
  /\ Running /\ iterations[s] < MaxIterations
  /\ pc[s] = "loop" \/ (pc[s] = "sleep" /\ now >= wakeAt[s])
  /\ iterations' = [iterations EXCEPT ![s] = @ + 1]
  /\ StartTime' = [StartTime EXCEPT ![s] = updateStartTime(s)]
  /\ IF updateInputErr(s)
     THEN /\ doneStreaming(s)
          /\ updateErr' = [updateErr EXCEPT ![s] = updateInputError(s)]
          /\ UNCHANGED <<lastTimestamp, pagesLeft, pollStarts, filterPattern,
                         logStreamNamePrefix>>
     ELSE /\ pc' = [pc EXCEPT ![s] = "page"]
          /\ lastTimestamp' = [lastTimestamp EXCEPT ![s] = 0]
          /\ pagesLeft' = [pagesLeft EXCEPT ![s] = MaxPages]
          /\ pollStarts' = [pollStarts EXCEPT ![s] = Append(@, updateStartTime(s))]
          /\ IF s = "application"
             THEN filterPattern' = applicationFilter /\ UNCHANGED logStreamNamePrefix
             ELSE logStreamNamePrefix' = instancePrefix /\ UNCHANGED filterPattern
          /\ UNCHANGED <<firstPassDone, wakeAt, err, wg, updateErr>>
  /\ UNCHANGED pageEvents
  /\ UNCHANGED <<events, seenEvents, eventCh, pastEventsCollected, mu,
                 arrival, discarded>>
  /\ UNCHANGED <<ctxVars, drvVars>>

\* updateInput as the two steps it is made of when the refresh goroutine
\* runs between them.  First the checks (lines 328-338 and 365-379): the
\* workflow job, the StartTime, and the test of f.instanceID.  The poll is
\* skipped on error; an application poll without an instance id is built
\* at once, from the job clause alone.
CheckInput(s) ==
  /\ Running /\ iterations[s] < MaxIterations
  /\ pc[s] = "loop" \/ (pc[s] = "sleep" /\ now >= wakeAt[s])
  /\ iterations' = [iterations EXCEPT ![s] = @ + 1]
  /\ StartTime' = [StartTime EXCEPT ![s] = updateStartTime(s)]
  /\ IF updateInputErr(s)
     THEN /\ doneStreaming(s)
          /\ updateErr' = [updateErr EXCEPT ![s] = updateInputError(s)]
          /\ UNCHANGED <<lastTimestamp, pagesLeft, pollStarts, filterPattern,
                         logStreamNamePrefix>>
     ELSE IF instanceID # ""
     THEN /\ pc' = [pc EXCEPT ![s] = "build"]
          /\ UNCHANGED <<lastTimestamp, pagesLeft, pollStarts, filterPattern,
                         logStreamNamePrefix, firstPassDone, wakeAt, err, wg,
                         updateErr>>
     ELSE /\ pc' = [pc EXCEPT ![s] = "page"]
          /\ lastTimestamp' = [lastTimestamp EXCEPT ![s] = 0]
          /\ pagesLeft' = [pagesLeft EXCEPT ![s] = MaxPages]
          /\ pollStarts' = [pollStarts EXCEPT ![s] = Append(@, updateStartTime(s))]
          /\ filterPattern' = <<jobClause>>
          /\ UNCHANGED <<logStreamNamePrefix, firstPassDone, wakeAt, err, wg,
                         updateErr>>
  /\ UNCHANGED pageEvents
  /\ UNCHANGED <<events, seenEvents, eventCh, pastEventsCollected, mu,
                 arrival, discarded>>
  /\ UNCHANGED <<ctxVars, drvVars>>

\* Then the use of f.instanceID (lines 340 and 380): it is read again, as
\* it is now, for the stream prefix or the message clause, and the request
\* is made.
BuildInput(s) ==
  /\ Running /\ pc[s] = "build"
  /\ pc' = [pc EXCEPT ![s] = "page"]
  /\ lastTimestamp' = [lastTimestamp EXCEPT ![s] = 0]
  /\ pagesLeft' = [pagesLeft EXCEPT ![s] = MaxPages]
  /\ pollStarts' = [pollStarts EXCEPT ![s] = Append(@, StartTime[s])]
  /\ IF s = "application"
     THEN /\ filterPattern' =
               <<jobClause,
                 [field |-> "message", value |-> "*" \o instanceID \o "*"]>>
          /\ UNCHANGED logStreamNamePrefix
     ELSE logStreamNamePrefix' = instancePrefix /\ UNCHANGED filterPattern
  /\ UNCHANGED <<StartTime, firstPassDone, pageEvents, wakeAt, err, iterations,
                 updateErr>>
  /\ UNCHANGED <<ctxVars, collVars, drvVars>>

\* streamLogs lines 269-273: paginator.NextPage fails; streamLogs returns.
NextPageErr(s) ==
  /\ Running /\ pc[s] = "page" /\ pageEvents[s] = <<>> /\ HasMorePages(s)
  /\ pc' = [pc EXCEPT ![s] = "returned"]
  /\ err' = [err EXCEPT ![s] = "error"]
  /\ UNCHANGED <<StartTime, lastTimestamp, firstPassDone, pageEvents,
                 pagesLeft, wakeAt, pollStarts, iterations, inputVars>>
  /\ UNCHANGED <<ctxVars, collVars, drvVars>>

\* streamLogs lines 269-279: paginator.NextPage returns a page.  A request
\* made with a cancelled context fails.
NextPageOk(s) ==
  /\ Running /\ pc[s] = "page" /\ pageEvents[s] = <<>> /\ HasMorePages(s)
  /\ ~cancelled
  /\ \E page \in Pages(s, StartTime[s]), left \in 0..(pagesLeft[s] - 1) :
       /\ pageEvents' = [pageEvents EXCEPT ![s] = page]
       /\ pagesLeft' = [pagesLeft EXCEPT ![s] = left]
  /\ UNCHANGED <<pc, StartTime, lastTimestamp, firstPassDone, wakeAt, err,
                 pollStarts, iterations, inputVars>>
  /\ UNCHANGED <<ctxVars, collVars, drvVars>>

\* streamLogs lines 281-296: one iteration over output.Events.
Add(s) ==
  /\ Running /\ pc[s] = "page" /\ pageEvents[s] # <<>>
  /\ LET e == Head(pageEvents[s]) IN
       /\ add(s, e)
       /\ IF mu' = "free"
          THEN /\ pageEvents' = [pageEvents EXCEPT ![s] = Tail(@)]
               /\ lastTimestamp' = [lastTimestamp EXCEPT ![s] =
                     IF Timestamp(e) > @ THEN Timestamp(e) ELSE @]
          ELSE UNCHANGED <<pageEvents, lastTimestamp>>
  /\ UNCHANGED <<pc, StartTime, firstPassDone, pagesLeft, wakeAt,
                 err, pollStarts, iterations, inputVars>>
  /\ UNCHANGED <<ctxVars, drvVars>>

\* streamLogs lines 300-317: the pages are exhausted; move the cursor and
\* finish the iteration.
EndPoll(s) ==
  /\ Running /\ pc[s] = "page" /\ pageEvents[s] = <<>> /\ ~HasMorePages(s)
  /\ StartTime' = [StartTime EXCEPT ![s] = nextStartTime(lastTimestamp[s])]
  /\ doneStreaming(s)
  /\ UNCHANGED <<lastTimestamp, pageEvents, pagesLeft, pollStarts, iterations,
                 inputVars>>
  /\ UNCHANGED <<events, seenEvents, eventCh, pastEventsCollected, mu,
                 arrival, discarded>>
  /\ UNCHANGED <<ctxVars, drvVars>>

Fetcher(s) ==
  \/ StartIteration(s) \/ NextPageErr(s) \/ NextPageOk(s) \/ Add(s)
  \/ EndPoll(s)

(* ----------------------------- driver ---------------------------------- *)
\* FetchLogs lines 391-397: collector.wg.Wait() returns; lock the collector
\* and sort the backlog.
DriverLock ==
  /\ dpc = "wait" /\ wg = 0 /\ mu = "free"
  /\ mu' = "driver"
  /\ events' \in sortSlice(events)
  /\ dpc' = "print"
  /\ UNCHANGED <<seenEvents, eventCh, pastEventsCollected, wg, arrival, discarded>>
  /\ UNCHANGED <<result, printed>>
  /\ UNCHANGED <<ctxVars, fetchVars>>

\* FetchLogs lines 402-410: print the backlog, set the phase flag, unlock,
\* and return when one-shot.
DriverDrain ==
  /\ dpc = "print"
  /\ printed' = [i \in 1..Len(events) |-> [id |-> events[i], phase |-> "backlog"]]
  /\ pastEventsCollected' = TRUE
  /\ mu' = "free"
  /\ IF ~opts.Watch
     THEN dpc' = "returned" /\ result' = "nil"
     ELSE dpc' = "live" /\ UNCHANGED result
  /\ UNCHANGED <<events, seenEvents, eventCh, wg, arrival, discarded>>
  /\ UNCHANGED <<ctxVars, fetchVars>>

\* Mutant of DriverRecv: the newest event of the channel is printed first.
DriverRecvNewest ==
  /\ dpc = "live" /\ eventCh # <<>>
  /\ printed' = Append(printed, [id |-> eventCh[Len(eventCh)], phase |-> "live"])
  /\ eventCh' = SubSeq(eventCh, 1, Len(eventCh) - 1)
  /\ UNCHANGED <<events, seenEvents, pastEventsCollected, wg, mu, arrival, discarded>>
  /\ UNCHANGED <<dpc, result>>
  /\ UNCHANGED <<ctxVars, fetchVars>>

\* FetchLogs lines 416-417: receive a live event and print it.
DriverRecv ==
  /\ dpc = "live" /\ eventCh # <<>>
  /\ printed' = Append(printed, [id |-> Head(eventCh), phase |-> "live"])
  /\ eventCh' = Tail(eventCh)
  /\ UNCHANGED <<events, seenEvents, pastEventsCollected, wg, mu, arrival, discarded>>
  /\ UNCHANGED <<dpc, result>>
  /\ UNCHANGED <<ctxVars, fetchVars>>

\* FetchLogs lines 414-415: the context is done.
DriverCtxDone ==
  /\ dpc = "live" /\ cancelled
  /\ dpc' = "returned" /\ result' = "ctxErr"
  /\ UNCHANGED printed
  /\ UNCHANGED <<ctxVars, fetchVars, collVars>>

\* FetchLogs lines 418-421: the 10 s timer fires; in watch mode nothing happens.
DriverIdle ==
  /\ dpc = "live" /\ eventCh = <<>> /\ ~cancelled
  /\ IF ~opts.Watch
     THEN dpc' = "returned" /\ result' = "nil"
     ELSE UNCHANGED <<dpc, result>>
  /\ UNCHANGED printed
  /\ UNCHANGED <<ctxVars, fetchVars, collVars>>

Driver ==
  \/ DriverLock \/ DriverDrain \/ DriverRecv \/ DriverCtxDone \/ DriverIdle

(* ----------------------- job context refresh --------------------------- *)
\* refreshWorkflowJobDetails: the job after one fetch with the given outcome.
refreshWorkflowJobDetails(outcome) ==
  IF outcome = "found" THEN QueuedJob ELSE workflowJob

\* The error refreshWorkflowJobDetails and refreshInstanceID return: a
\* failed GetObject is logged and nil is returned; a body that cannot be
\* read, or a payload that does not parse as JSON, is returned.
refreshErr(outcome) ==
  IF outcome \in {"readerr", "parseerr"} THEN "error" ELSE "nil"

\* Mutant of refreshInstanceID: a failed GetObject leaves the id as it is.
refreshInstanceIDKeeping(outcome) ==
  IF outcome = "found" THEN TheInstance ELSE instanceID

\* refreshInstanceID: the id after one fetch with the given outcome.
refreshInstanceID(outcome) ==
  CASE outcome = "found" -> TheInstance
    [] outcome = "geterr" -> ""
    [] outcome = "readerr" -> instanceID

\* Init lines 84-87: the run id, taken from the workflow job when the run
\* filter is on and the job is known.
initRunID(flag, job) ==
  IF flag /\ job # NilJob THEN Itoa(job.RunID) ELSE ""

\* A state-store request made with a cancelled context fails.
Outcomes == IF cancelled THEN {"geterr"} ELSE {"found", "geterr", "readerr"}

\* The outcomes of fetching the queued webhook: its payload can also fail
\* to parse.
JobOutcomes == IF cancelled THEN {"geterr"} ELSE Outcomes \cup {"parseerr"}

\* No tick of the refresh goroutine yet.
NoRefresh == [job |-> FALSE, instance |-> "-"]

\* Mutant of refreshesJob: the workflow job is fetched on every tick.
refreshesJobAlways == TRUE

\* Init line 99: a tick fetches the workflow job only while it is nil.
refreshesJob == workflowJob = NilJob

\* Init lines 98-110: one tick of the refresh goroutine.
RefreshTick ==
  /\ Running /\ refreshPc = "running" /\ now >= refreshAt
  /\ refreshAt' = refreshAt + RefreshIntervalMs
  /\ \E oj \in JobOutcomes, oi \in Outcomes :
       /\ workflowJob' = IF refreshesJob
                         THEN refreshWorkflowJobDetails(oj) ELSE workflowJob
       /\ instanceID' = refreshInstanceID(oi)
       /\ lastRefresh' = [job |-> refreshesJob,
                          instance |-> IF oi = "geterr" THEN "failed"
                                       ELSE "returned"]
  /\ everResolved' = (everResolved \/ instanceID' # "")
  /\ UNCHANGED <<opts, now, cancelled, refreshPc, setupVars>>
  /\ UNCHANGED <<fetchVars, collVars, drvVars>>
  /\ UNCHANGED toolVars

\* Init lines 96-97: the refresh goroutine returns on ctx.Done().
RefreshExit ==
  /\ Running /\ refreshPc = "running" /\ cancelled
  /\ refreshPc' = "exited"
  /\ UNCHANGED <<opts, now, cancelled, workflowJob, instanceID, refreshAt,
                 everResolved, lastRefresh, setupVars>>
  /\ UNCHANGED <<fetchVars, collVars, drvVars>>
  /\ UNCHANGED toolVars

(* --------------------------- environment ------------------------------- *)
\* The caller cancels the context of the session.
Cancel ==
  /\ Running /\ ~cancelled
  /\ cancelled' = TRUE
  /\ UNCHANGED <<opts, now, workflowJob, instanceID, refreshPc, refreshAt,
                 everResolved, lastRefresh, setupVars>>
  /\ UNCHANGED <<fetchVars, collVars, drvVars>>
  /\ UNCHANGED toolVars

\* The timers that have not fired yet: the sleeps of the fetchers and the
\* ticker of the refresh goroutine.
Timers ==
  {wakeAt[s] : s \in {x \in Sources : pc[x] = "sleep"}}
    \cup (IF refreshPc = "running" THEN {refreshAt} ELSE {})

Min(S) == CHOOSE x \in S : \A y \in S : x <= y

\* Time passes, up to the next timer.  A timer that has expired is served
\* before time passes further.
TickTo(horizon) ==
  /\ Running
  /\ \A t \in Timers : t > now
  /\ Timers # {}
  /\ Min(Timers) <= horizon
  /\ now' = Min(Timers)
  /\ UNCHANGED <<opts, cancelled, workflowJob, instanceID, refreshPc, refreshAt,
                 everResolved, lastRefresh, setupVars>>
  /\ UNCHANGED <<fetchVars, collVars, drvVars>>
  /\ UNCHANGED toolVars

Tick == TickTo(SessionStart + MaxTime)

(* ---------------------------- discovery -------------------------------- *)
\* The resources of a deployment, as ARNs.
StackName == "runs-on"
AppRunnerArn == <<"arn:aws", ":apprunner:", "eu-west-1", ":service/", StackName>>
BucketArn == <<"arn:aws:s3", ":::", StackName, "-config">>
LogGroupArn == <<"arn:aws", ":logs:", "eu-west-1", ":log-group:", StackName,
                 "/ec2/instances">>

\* What the tagging API can list: the three resources with their
\* runs-on-resource tag (type), a tagged bucket whose ARN has no bucket
\* name, the three resources without the tag (the bucket marked by its
\* runs-on/purpose tag), and a resource of another kind.
Resources ==
  {[arn |-> AppRunnerArn, type |-> "apprunner-service", purpose |-> ""],
   [arn |-> BucketArn, type |-> "config-bucket", purpose |-> ""],
   [arn |-> LogGroupArn, type |-> "ec2-log-group", purpose |-> ""],
   [arn |-> <<"arn:aws:s3">>, type |-> "config-bucket", purpose |-> ""],
   [arn |-> AppRunnerArn, type |-> "", purpose |-> ""],
   [arn |-> <<"arn:aws:s3", ":::", StackName, "-bucket">>, type |-> "",
    purpose |-> "config"],
   [arn |-> LogGroupArn, type |-> "", purpose |-> ""],
   [arn |-> <<"arn:aws", ":lambda:", "eu-west-1", ":function:", StackName>>,
    type |-> "", purpose |-> ""]}

\* A listing: the resources of the pages the paginator returns, and whether
\* the call of NextPage after them fails.
Listings ==
  [page : UNION {[1..n -> Resources] : n \in 0..MaxResources}, fails : BOOLEAN]

\* The listings of the second tier: a deployment without runs-on-resource
\* tags, whole, without its bucket, or nothing.
LegacyStack ==
  <<[arn |-> AppRunnerArn, type |-> "", purpose |-> ""],
    [arn |-> <<"arn:aws:s3", ":::", StackName, "-bucket">>, type |-> "",
     purpose |-> "config"],
    [arn |-> LogGroupArn, type |-> "", purpose |-> ""]>>
LegacyListings ==
  [page : {LegacyStack, SubSeq(LegacyStack, 1, 1) \o SubSeq(LegacyStack, 3, 3), <<>>},
   fails : BOOLEAN]

\* What discoverResources gets from the services: the listing by the
\* runs-on-stack-name tag, the outcome of discoverTagKeyFromAppRunner, and
\* the listing by the tag key it found.
DiscoveryInputs ==
  [tagged : Listings, tagKey : {"found", "none", "err"}, legacy : LegacyListings]

EmptyConfig == [AppRunnerServiceArn |-> <<>>, BucketConfig |-> <<>>,
                EC2LogGroupArn |-> <<>>]

\* extractBucketName.
extractBucketName(arn) ==
  LET parts == Split(arn, ":::")
  IN IF Len(parts) = 2 THEN parts[2] ELSE <<>>

\* discovery.go lines 40-48: one resource, classified by its tag.
classifyByTag(c, r) ==
  CASE r.type = "apprunner-service" -> [c EXCEPT !.AppRunnerServiceArn = r.arn]
    [] r.type = "config-bucket" -> [c EXCEPT !.BucketConfig = extractBucketName(r.arn)]
    [] r.type = "ec2-log-group" -> [c EXCEPT !.EC2LogGroupArn = r.arn]
    [] OTHER -> c

isAppRunnerService(arn) ==
  Contains(arn, <<":apprunner:">>) /\ Contains(arn, <<":service/">>)

isS3Bucket(arn) == HasPrefix(arn, <<"arn:aws:s3", ":::">>)

isCloudWatchLogGroup(arn) ==
  Contains(arn, <<":logs:">>) /\ Contains(arn, <<":log-group:">>)

isConfigBucket(r) ==
  r.purpose = "config" \/ Contains(extractBucketName(r.arn), <<"-config">>)

isEC2LogGroup(arn, stackName) ==
  \/ Contains(arn, <<stackName, "/ec2/instances">>)
  \/ Contains(arn, <<stackName, "-EC2InstanceLogGroup-">>)

\* classifyResource of the two-tier discovery: by the tag, and without the
\* tag by the pattern of the ARN.
classifyResource(c, r, stackName) ==
  CASE r.type = "apprunner-service" -> [c EXCEPT !.AppRunnerServiceArn = r.arn]
    [] r.type = "config-bucket" -> [c EXCEPT !.BucketConfig = extractBucketName(r.arn)]
    [] r.type = "ec2-log-group" -> [c EXCEPT !.EC2LogGroupArn = r.arn]
    [] OTHER ->
         IF isAppRunnerService(r.arn)
         THEN [c EXCEPT !.AppRunnerServiceArn = r.arn]
         ELSE IF isS3Bucket(r.arn) /\ isConfigBucket(r)
         THEN [c EXCEPT !.BucketConfig = extractBucketName(r.arn)]
         ELSE IF isCloudWatchLogGroup(r.arn) /\ isEC2LogGroup(r.arn, stackName)
         THEN [c EXCEPT !.EC2LogGroupArn = r.arn]
         ELSE c

\* The loops over the resources of a listing.
RECURSIVE classifyAllByTag(_, _)
classifyAllByTag(c, page) ==
  IF page = <<>> THEN c
  ELSE classifyAllByTag(classifyByTag(c, Head(page)), Tail(page))

RECURSIVE classifyAll(_, _, _)
classifyAll(c, page, stackName) ==
  IF page = <<>> THEN c
  ELSE classifyAll(classifyResource(c, Head(page), stackName), Tail(page), stackName)

\* Mutant of validate: only the AppRunner service is required.
validateServiceOnly(c) ==
  IF c.AppRunnerServiceArn = <<>> THEN "no resources found" ELSE "nil"

\* RunsOnConfig.validate.
validate(c) ==
  IF c.AppRunnerServiceArn = <<>> \/ c.BucketConfig = <<>> \/ c.EC2LogGroupArn = <<>>
  THEN "no resources found" ELSE "nil"

\* RunsOnConfig.isComplete.
isComplete(c) ==
  c.AppRunnerServiceArn # <<>> /\ c.BucketConfig # <<>> /\ c.EC2LogGroupArn # <<>>

\* Stack.discoverResources of discovery.go: the configuration (<<>> for
\* nil) and the error it returns.
discoverResources(listing) ==
  LET c == classifyAllByTag(EmptyConfig, listing.page)
  IN IF listing.fails
     THEN [config |-> <<>>, err |-> "failed to query resources"]
     ELSE IF validate(c) # "nil"
     THEN [config |-> <<>>, err |-> validate(c)]
     ELSE [config |-> <<c>>, err |-> "nil"]

\* Stack.discoverByTag of the two-tier discovery: the configuration found
\* so far is returned with the error.
discoverByTag(listing, stackName) ==
  [config |-> classifyAll(EmptyConfig, listing.page, stackName),
   err |-> IF listing.fails THEN "failed to query resources" ELSE "nil"]

\* Stack.discoverResources of the two-tier discovery.
discoverResourcesTiered(in, stackName) ==
  LET tier1 == discoverByTag(in.tagged, stackName).config
      tier2 == discoverByTag(in.legacy, stackName).config
  IN IF isComplete(tier1) THEN [config |-> <<tier1>>, err |-> "nil"]
     ELSE IF in.tagKey = "found" /\ isComplete(tier2)
     THEN [config |-> <<tier2>>, err |-> "nil"]
     ELSE [config |-> <<>>, err |-> "could not discover resources"]

\* A call of discoverResources (discovery.go).
DiscoverResources ==
  /\ stage = "start"
  /\ config' = discoverResources(resources.tagged).config
  /\ discoverErr' = discoverResources(resources.tagged).err
  /\ stage' = "discovered"
  /\ UNCHANGED <<useRunFilter, runID, token, jobID, setupErr, resources>>
  /\ UNCHANGED <<opts, now, cancelled, workflowJob, instanceID, refreshPc,
                 refreshAt, everResolved, lastRefresh>>
  /\ UNCHANGED <<fetchVars, collVars, drvVars>>
  /\ UNCHANGED toolVars

\* A call of the two-tier discoverResources.
DiscoverResourcesTiered ==
  /\ stage = "start"
  /\ config' = discoverResourcesTiered(resources, StackName).config
  /\ discoverErr' = discoverResourcesTiered(resources, StackName).err
  /\ stage' = "discoveredTiered"
  /\ UNCHANGED <<useRunFilter, runID, token, jobID, setupErr, resources>>
  /\ UNCHANGED <<opts, now, cancelled, workflowJob, instanceID, refreshPc,
                 refreshAt, everResolved, lastRefresh>>
  /\ UNCHANGED <<fetchVars, collVars, drvVars>>
  /\ UNCHANGED toolVars

(* ------------------------------ setup ---------------------------------- *)

\* The zero value of LogOptions.
NoOptions == [Watch |-> FALSE, WatchInterval |-> 0, StartTime |-> 0]

\* The outputs of the CloudFormation stack that getStackOutputs reads.
OutputKeys == {"RunsOnServiceArn", "RunsOnEC2InstanceLogGroupArn", "RunsOnBucketConfig"}

\* Stack.getStackOutputs, called at RunE line 460: DescribeStacks fails, or
\* returns no stack, or the configuration is filled from the outputs the
\* stack has.
GetStackOutputs ==
  /\ stage = "start"
  /\ \E outcome \in {"err", "nostack", "ok"}, outputs \in SUBSET OutputKeys :
       IF outcome = "ok"
       THEN /\ config' = <<[AppRunnerServiceArn |->
                              IF "RunsOnServiceArn" \in outputs
                              THEN AppRunnerArn ELSE <<>>,
                            BucketConfig |->
                              IF "RunsOnBucketConfig" \in outputs
                              THEN <<StackName, "-config">> ELSE <<>>,
                            EC2LogGroupArn |->
                              IF "RunsOnEC2InstanceLogGroupArn" \in outputs
                              THEN LogGroupArn ELSE <<>>]>>
            /\ stage' = "configured"
            /\ UNCHANGED setupErr
       ELSE /\ outputs = {}
            /\ stage' = "failed"
            /\ setupErr' = "stack"
            /\ UNCHANGED config
  /\ UNCHANGED <<useRunFilter, runID, token, jobID, resources, discoverErr>>
  /\ UNCHANGED <<opts, now, cancelled, workflowJob, instanceID, refreshPc,
                 refreshAt, everResolved, lastRefresh>>
  /\ UNCHANGED <<fetchVars, collVars, drvVars>>
  /\ UNCHANGED toolVars

\* RunE lines 465-499: the options are built from the flags and the job id
\* is extracted from the token.
ExtractJobID ==
  /\ stage = "configured"
  /\ \E inv \in Invocations : opts' = LogOptions(inv[1], inv[2])
  /\ jobID' = extractJobID(token)
  /\ stage' = "extracted"
  /\ UNCHANGED <<useRunFilter, runID, token, setupErr, resources, config,
                 discoverErr>>
  /\ UNCHANGED <<now, cancelled, workflowJob, instanceID, refreshPc, refreshAt,
                 everResolved, lastRefresh>>
  /\ UNCHANGED <<fetchVars, collVars, drvVars>>
  /\ UNCHANGED toolVars

\* LogFetcher.Init, called at RunE line 500, and on success the start of
\* FetchLogs (lines 349-388): one attempt at the workflow job, one at the
\* instance id; an error of either is returned to RunE, which returns it.
\* Otherwise the refresh goroutine and the two fetchers are started.
FetcherInit ==
  /\ stage = "extracted"
  /\ \E flag \in BOOLEAN, oj \in JobOutcomes, oi \in Outcomes :
       LET job == refreshWorkflowJobDetails(oj)
           failed == refreshErr(oj) = "error" \/ refreshErr(oi) = "error"
       IN /\ useRunFilter' = flag
          /\ workflowJob' = job
          /\ instanceID' = IF refreshErr(oj) = "error" THEN instanceID
                           ELSE refreshInstanceID(oi)
          /\ everResolved' = (instanceID' # "")
          /\ UNCHANGED lastRefresh
          /\ IF failed
             THEN /\ stage' = "failed"
                  /\ setupErr' = "init"
                  /\ UNCHANGED <<runID, refreshPc, refreshAt, pc, wg, dpc>>
             ELSE /\ stage' = "session"
                  /\ runID' = initRunID(flag, job)
                  /\ refreshPc' = "running"
                  /\ refreshAt' = now + RefreshIntervalMs
                  /\ pc' = [s \in Sources |-> "loop"]
                  /\ wg' = 2
                  /\ dpc' = "wait"
                  /\ UNCHANGED setupErr
  /\ UNCHANGED <<token, jobID, resources, config, discoverErr>>
  /\ UNCHANGED <<opts, now, cancelled>>
  /\ UNCHANGED <<StartTime, lastTimestamp, firstPassDone, pageEvents, pagesLeft,
                 wakeAt, err, pollStarts, iterations, inputVars>>
  /\ UNCHANGED <<events, seenEvents, eventCh, pastEventsCollected, mu, arrival,
                 discarded>>
  /\ UNCHANGED <<result, printed>>
  /\ UNCHANGED toolVars

(* ----------------------- interrupt and connect ------------------------- *)
LookupIntervalMs == 5000      \* time.Sleep(5 * time.Second)
MaxLookups == 3       \* passes of the lookup loop of RunE
MaxPolls == 2         \* polls of monitorExperiment that find the experiment going on

\* The log session's state, which the other commands do not touch.
sessionVars == <<opts, workflowJob, instanceID, refreshPc, refreshAt,
                 everResolved, lastRefresh, setupVars, fetchVars, collVars, drvVars>>

\* The answers of an AWS request that either succeeds or fails; a request
\* made with a cancelled context fails.
Answers == IF cancelled THEN {FALSE} ELSE BOOLEAN

\* The first instance of the first reservation DescribeInstances returns
\* (found is false when there is none): an on-demand instance has an empty
\* lifecycle.
Instances ==
  {[found |-> FALSE, lifecycle |-> "", state |-> ""]}
    \cup [found : {TRUE}, lifecycle : {"spot", ""}, state : {"running", "stopped"}]

\* The statuses of types.ExperimentStatus that GetExperiment reports.
ExperimentStatuses ==
  {"pending", "initiating", "running", "completed", "stopping", "stopped", "failed"}

\* RunE returns e.
Return(e) == ipc' = "returned" /\ cmdErr' = e

\* Mutant of RetryLookup: the loop goes on without the flag as well.
RetryLookupAlways == TRUE

\* interrupt.go line 93, connect.go line 56: a failed GetObject is retried
\* only with the flag.
RetryLookup == wait

\* interrupt.go lines 87-108, connect.go lines 50-71: one pass of the loop
\* that reads runs-on/db/jobs/<id>/instance-id.
GetInstanceID ==
  /\ ipc = "lookup" /\ Len(lookups) < MaxLookups
  /\ \E outcome \in Outcomes :
       /\ lookups' = Append(lookups, [at |-> now, outcome |-> outcome])
       /\ CASE outcome = "geterr" ->
                 IF ~RetryLookup
                 THEN /\ Return("instance ID not found")
                      /\ UNCHANGED <<lookupWake, jobInstanceID>>
                 ELSE /\ ipc' = "sleep"
                      /\ lookupWake' = now + LookupIntervalMs
                      /\ UNCHANGED <<cmdErr, jobInstanceID>>
            [] outcome = "readerr" ->
                 /\ Return("read")
                 /\ UNCHANGED <<lookupWake, jobInstanceID>>
            [] outcome = "found" ->
                 /\ jobInstanceID' \in {"", TheInstance}
                 /\ ipc' = IF command = "interrupt" THEN "identity" ELSE "describe"
                 /\ UNCHANGED <<cmdErr, lookupWake>>
  /\ UNCHANGED <<command, wait, clean, skipChecks, described, roleCreated,
                 templates, deleteAttempts, experiment, polls>>
  /\ UNCHANGED <<now, cancelled, sessionVars, doctorVars, lintVars, batchVars>>

\* interrupt.go line 97, connect.go line 60: time.Sleep returns.
LookupSleep ==
  /\ ipc = "sleep"
  /\ now' = lookupWake
  /\ ipc' = "lookup"
  /\ UNCHANGED <<command, wait, clean, skipChecks, lookups, lookupWake,
                 jobInstanceID, described, roleCreated, templates,
                 deleteAttempts, experiment, polls, cmdErr>>
  /\ UNCHANGED <<cancelled, sessionVars, doctorVars, lintVars, batchVars>>

\* interrupt.go lines 118-123: the connectivity test.
GetCallerIdentity ==
  /\ ipc = "identity"
  /\ \E ok \in Answers :
       IF ok THEN ipc' = "preflight" /\ UNCHANGED cmdErr
       ELSE Return("basic AWS connectivity test failed")
  /\ UNCHANGED <<command, wait, clean, skipChecks, lookups, lookupWake,
                 jobInstanceID, described, roleCreated, templates,
                 deleteAttempts, experiment, polls>>
  /\ UNCHANGED <<now, cancelled, sessionVars, doctorVars, lintVars, batchVars>>

\* interrupt.go lines 125-146: ListExperimentTemplates as a pre-flight
\* check; only an endpoint or a permission error ends the command.
PreflightChecks ==
  /\ ipc = "preflight"
  /\ IF skipChecks
     THEN ipc' = "validate" /\ UNCHANGED cmdErr
     ELSE \E outcome \in IF cancelled THEN {"other"}
                         ELSE {"ok", "ResolveEndpointV2", "AccessDenied", "other"} :
            IF outcome \in {"ResolveEndpointV2", "AccessDenied"}
            THEN Return(outcome)
            ELSE ipc' = "validate" /\ UNCHANGED cmdErr
  /\ UNCHANGED <<command, wait, clean, skipChecks, lookups, lookupWake,
                 jobInstanceID, described, roleCreated, templates,
                 deleteAttempts, experiment, polls>>
  /\ UNCHANGED <<now, cancelled, sessionVars, doctorVars, lintVars, batchVars>>

\* Mutant of validateInstance: the state of the instance is not looked at.
validateInstanceAnyState(inst) ==
  IF ~inst.found THEN "not found"
  ELSE IF inst.lifecycle # "spot" THEN "not a spot instance"
  ELSE "nil"

\* interrupt.go lines 160-173: the error the checks of the instance give.
validateInstance(inst) ==
  IF ~inst.found THEN "not found"
  ELSE IF inst.lifecycle # "spot" THEN "not a spot instance"
  ELSE IF inst.state # "running" THEN "not running"
  ELSE "nil"

\* interrupt.go lines 148-178: the instance is described and checked,
\* unless --skip-checks is given.
ValidateInstance ==
  /\ ipc = "validate"
  /\ IF skipChecks
     THEN ipc' = "create" /\ UNCHANGED <<cmdErr, described>>
     ELSE \E ok \in Answers, inst \in Instances :
            IF ~ok
            THEN Return("failed to describe instance") /\ UNCHANGED described
            ELSE /\ described' = <<inst>>
                 /\ IF validateInstance(inst) = "nil"
                    THEN ipc' = "create" /\ UNCHANGED cmdErr
                    ELSE Return(validateInstance(inst))
  /\ UNCHANGED <<command, wait, clean, skipChecks, lookups, lookupWake,
                 jobInstanceID, roleCreated, templates, deleteAttempts,
                 experiment, polls>>
  /\ UNCHANGED <<now, cancelled, sessionVars, doctorVars, lintVars, batchVars>>

\* createSpotInterruption, called at RunE line 187: the account id, the
\* FIS role (getOrCreateFISRole), the experiment template and the start of
\* the experiment; the first request that fails ends it with an error.
createSpotInterruption ==
  /\ ipc = "create"
  /\ \E identity \in Answers,
        role \in IF cancelled THEN {"err"}
                 ELSE {"created", "EntityAlreadyExists", "err"},
        policy \in Answers, template \in Answers, start \in Answers :
       LET roleARN == identity /\ (role = "EntityAlreadyExists"
                                   \/ (role = "created" /\ policy))
           created == roleARN /\ template
           started == created /\ start
       IN /\ roleCreated' = (roleCreated \/ (identity /\ role = "created"))
          /\ templates' = IF created THEN templates + 1 ELSE templates
          /\ experiment' = IF started THEN "started" ELSE experiment
          /\ IF started THEN ipc' = "monitor" /\ UNCHANGED cmdErr
             ELSE Return("failed to trigger spot interruption")
  /\ UNCHANGED <<command, wait, clean, skipChecks, lookups, lookupWake,
                 jobInstanceID, described, deleteAttempts, polls>>
  /\ UNCHANGED <<now, cancelled, sessionVars, doctorVars, lintVars, batchVars>>

\* monitorExperiment lines 353-382: one pass of the loop: a tick of the
\* ticker with the answer of GetExperiment, or ctx.Done().  When the
\* function returns, the deferred DeleteExperimentTemplate runs if clean.
monitorExperiment ==
  /\ ipc = "monitor"
  /\ \E event \in IF cancelled THEN {"err", "ctxDone"}
                  ELSE ExperimentStatuses \cup {"err"} :
       LET ret == CASE event = "err" -> "failed to get experiment status"
                    [] event \in {"failed", "stopped"} -> "experiment failed"
                    [] event = "ctxDone" -> "monitoring timed out"
                    [] event = "completed" -> "nil"
                    [] OTHER -> "-"
       IN /\ experiment' = IF event \in ExperimentStatuses THEN event
                           ELSE experiment
          /\ IF ret = "-"
             THEN /\ polls < MaxPolls
                  /\ polls' = polls + 1
                  /\ UNCHANGED <<ipc, cmdErr, deleteAttempts>>
             ELSE /\ Return(ret)
                  /\ deleteAttempts' = IF clean THEN deleteAttempts + 1
                                       ELSE deleteAttempts
                  /\ UNCHANGED polls
  /\ UNCHANGED <<command, wait, clean, skipChecks, lookups, lookupWake,
                 jobInstanceID, described, roleCreated, templates>>
  /\ UNCHANGED <<now, cancelled, sessionVars, doctorVars, lintVars, batchVars>>

\* connect.go lines 74-88 and after: the instance is looked up in SSM and
\* the session is started.
DescribeInstanceInformation ==
  /\ ipc = "describe"
  /\ \E ok \in Answers, registered \in BOOLEAN :
       IF ~ok THEN Return("failed to check instance status")
       ELSE IF ~registered THEN Return("not registered with SSM")
       ELSE Return("nil")
  /\ UNCHANGED <<command, wait, clean, skipChecks, lookups, lookupWake,
                 jobInstanceID, described, roleCreated, templates,
                 deleteAttempts, experiment, polls>>
  /\ UNCHANGED <<now, cancelled, sessionVars, doctorVars, lintVars, batchVars>>

\* No interrupt or connect command is running.
InterruptIdle ==
  /\ command = "-" /\ wait = FALSE /\ clean = TRUE /\ skipChecks = FALSE
  /\ ipc = "idle" /\ lookups = <<>> /\ lookupWake = 0 /\ jobInstanceID = "-"
  /\ described = <<>> /\ roleCreated = FALSE /\ templates = 0
  /\ deleteAttempts = 0 /\ experiment = "none" /\ polls = 0 /\ cmdErr = "-"

(* ------------------------------ doctor --------------------------------- *)
\* StackDoctor.Run lines 480-484: the checks, in the order Run calls them.
CheckOrder ==
  <<"checkStackHealth", "checkAppRunnerService", "checkEndpointAccessibility",
    "checkCongratsResponse", "fetchLogs">>

\* The outputs of the stack the checks look up in d.outputs.
DoctorOutputKeys == {"RunsOnServiceArn", "RunsOnEntryPoint"}

\* The results a check can have with the outputs outs: "ok", "warn"
\* (version mismatch), "fail", "skip" (fetchLogs without a service) and
\* "nodir" (fetchLogs could not make the logs directory and added no check).
checkStatuses(name, outs) ==
  CASE name = "checkStackHealth" -> {"ok", "fail"}
    [] name = "checkAppRunnerService" ->
         IF "RunsOnServiceArn" \in outs THEN {"ok", "warn", "fail"} ELSE {"fail"}
    [] name \in {"checkEndpointAccessibility", "checkCongratsResponse"} ->
         IF "RunsOnEntryPoint" \in outs THEN {"ok", "fail"} ELSE {"fail"}
    [] name = "fetchLogs" ->
         IF "RunsOnServiceArn" \in outs THEN {"ok", "fail", "nodir"}
         ELSE {"skip", "nodir"}

\* Mutant of stopsRun: a failed check ends Run.
stopsRunOnFailure(status) == status = "fail"

\* Run lines 480-484: the value a check returns is dropped.
stopsRun(status) == FALSE

\* Run returns e; the deferred cleanup removes the workspace.
DoctorReturn(e) == docPc' = "returned" /\ docErr' = e /\ workspace' = <<>>

\* Run lines 468-472: os.MkdirTemp.
MkdirTemp ==
  /\ docPc = "run"
  /\ \E ok \in BOOLEAN :
       IF ok THEN docPc' = "outputs" /\ workspace' = <<{}>> /\ UNCHANGED docErr
       ELSE /\ docPc' = "returned"
            /\ docErr' = "failed to create temporary workspace"
            /\ UNCHANGED workspace
  /\ UNCHANGED <<doctorOutputs, ran, zip>>
  /\ UNCHANGED <<now, cancelled, sessionVars, interruptVars, lintVars,
                 batchVars>>

\* loadStackOutputs, called at Run line 475.
loadStackOutputs ==
  /\ docPc = "outputs"
  /\ \E ok \in Answers, outs \in SUBSET DoctorOutputKeys :
       IF ok
       THEN /\ doctorOutputs' = <<outs>>
            /\ docPc' = "checks"
            /\ UNCHANGED <<docErr, workspace>>
       ELSE /\ outs = {}
            /\ DoctorReturn("failed to load stack outputs")
            /\ UNCHANGED doctorOutputs
  /\ UNCHANGED <<ran, zip>>
  /\ UNCHANGED <<now, cancelled, sessionVars, interruptVars, lintVars,
                 batchVars>>

\* Run lines 480-484: the next check of CheckOrder is called.  fetchLogs
\* makes the logs directory first.
RunCheck ==
  /\ docPc = "checks"
  /\ LET name == CheckOrder[Len(ran) + 1] IN
       \E status \in checkStatuses(name, doctorOutputs[1]) :
         /\ ran' = Append(ran, [name |-> name, status |-> status])
         /\ IF stopsRun(status)
            THEN DoctorReturn("check failed")
            ELSE /\ docPc' = IF Len(ran') = Len(CheckOrder) THEN "save"
                             ELSE "checks"
                 /\ workspace' = IF name = "fetchLogs" /\ status # "nodir"
                                 THEN <<workspace[1] \cup {"logs"}>>
                                 ELSE workspace
                 /\ UNCHANGED docErr
  /\ UNCHANGED <<doctorOutputs, zip>>
  /\ UNCHANGED <<now, cancelled, sessionVars, interruptVars, lintVars,
                 batchVars>>

\* saveResults, called at Run line 487: checks.json is written to the
\* workspace.
saveResults ==
  /\ docPc = "save"
  /\ \E ok \in BOOLEAN :
       IF ok
       THEN /\ workspace' = <<workspace[1] \cup {"checks.json"}>>
            /\ docPc' = "zip"
            /\ UNCHANGED docErr
       ELSE DoctorReturn("failed to save results")
  /\ UNCHANGED <<doctorOutputs, ran, zip>>
  /\ UNCHANGED <<now, cancelled, sessionVars, interruptVars, lintVars,
                 batchVars>>

\* createZipFile, called at Run line 493: the archive is created, then
\* checks.json and the files of the logs directory are added; Run returns.
createZipFile ==
  /\ docPc = "zip"
  /\ \E ok \in BOOLEAN :
       IF ~ok
       THEN DoctorReturn("failed to create zip file") /\ UNCHANGED zip
       ELSE IF "logs" \notin workspace[1]
       THEN DoctorReturn("failed to create zip file") /\ zip' = <<{"checks.json"}>>
       ELSE DoctorReturn("nil") /\ zip' = <<{"checks.json", "logs"}>>
  /\ UNCHANGED <<doctorOutputs, ran>>
  /\ UNCHANGED <<now, cancelled, sessionVars, interruptVars, lintVars,
                 batchVars>>

\* No doctor command is running.
DoctorIdle ==
  /\ docPc = "idle" /\ workspace = <<>> /\ doctorOutputs = <<>>
  /\ ran = <<>> /\ zip = <<>> /\ docErr = "-"

(* ------------------------------- lint ---------------------------------- *)
MaxDiags == 6         \* diagnostics in a list

\* validate.SeverityError and validate.SeverityWarning.
Severities == {"error", "warning"}

\* lint.go lines 261-268.
hasErrors(ds) == \E i \in DOMAIN ds : ds[i] = "error"

\* Mutant of isValidDiagnostics: only the empty list is valid.
isValidDiagnosticsEmptyOnly(ds) == Len(ds) = 0

\* lint.go lines 271-273.
isValidDiagnostics(ds) == Len(ds) = 0 \/ ~hasErrors(ds)

\* The lint command passes its verdicts on a validated file.
Lint ==
  /\ lintResult = <<>>
  /\ lintResult' = <<[hasErrors |-> hasErrors(diags),
                      valid |-> isValidDiagnostics(diags)]>>
  /\ UNCHANGED diags
  /\ UNCHANGED <<now, cancelled, sessionVars, interruptVars, doctorVars,
                 batchVars>>

\* No lint command is running.
LintIdle == diags = <<>> /\ lintResult = <<>>

(* ------------------------- instance batching --------------------------- *)
fisTargetLimit == 5    \* fisTargetLimit = 5
MaxInstances == 6      \* instance ids in a list
MaxBatchSize == 3      \* sizes tried besides fisTargetLimit

\* Mutant of batchInstances: the size is ignored.
batchInstancesWhole(ids, size) == IF ids = <<>> THEN <<>> ELSE <<ids>>

\* batchInstances: the loop over the ids, i counting from 0; the batch in
\* progress is closed when i is a multiple of size, and once more at the
\* end, in both cases only when it is not empty.
batchInstances(ids, size) ==
  LET RECURSIVE loop(_, _, _)
      loop(i, batches, currentBatch) ==
        IF i = Len(ids)
        THEN IF Len(currentBatch) > 0
             THEN Append(batches, currentBatch) ELSE batches
        ELSE IF i % size = 0 /\ Len(currentBatch) > 0
             THEN loop(i + 1, Append(batches, currentBatch), <<ids[i + 1]>>)
             ELSE loop(i + 1, batches, Append(currentBatch, ids[i + 1]))
  IN  loop(0, <<>>, <<>>)

\* createSpotInterruption line 237: the call of batchInstances.
Batch ==
  /\ instanceIDBatches = <<>>
  /\ instanceIDBatches' = <<batchInstances(instanceIDs, batchSize)>>
  /\ UNCHANGED <<instanceIDs, batchSize>>
  /\ UNCHANGED <<now, cancelled, sessionVars, interruptVars, doctorVars, lintVars>>

\* batchInstances is not being called.
BatchIdle == instanceIDs = <<>> /\ batchSize = fisTargetLimit /\ instanceIDBatches = <<>>

\* Only the logs command is running.
ToolsIdle == InterruptIdle /\ DoctorIdle /\ LintIdle /\ BatchIdle

(* -------------------------- specification ------------------------------ *)
\* The state when FetchLogs has made the collector and started both
\* fetchers, after NewLogsCmd built the options and Init made its one
\* synchronous attempt at the job and the instance id.
SessionInit(invocations, runFlags) ==
  /\ \E inv \in invocations : opts = LogOptions(inv[1], inv[2])
  /\ now = SessionStart
  /\ cancelled = FALSE
  /\ workflowJob \in {NilJob, QueuedJob}
  /\ instanceID \in {"", TheInstance}
  /\ everResolved = (instanceID # "")
  /\ lastRefresh = NoRefresh
  /\ refreshPc = "running"
  /\ refreshAt = SessionStart + RefreshIntervalMs
  /\ pc = [s \in Sources |-> "loop"]
  /\ StartTime = [s \in Sources |-> Nil]
  /\ lastTimestamp = [s \in Sources |-> 0]
  /\ firstPassDone = [s \in Sources |-> FALSE]
  /\ pageEvents = [s \in Sources |-> <<>>]
  /\ pagesLeft = [s \in Sources |-> 0]
  /\ wakeAt = [s \in Sources |-> 0]
  /\ err = [s \in Sources |-> "-"]
  /\ pollStarts = [s \in Sources |-> <<>>]
  /\ iterations = [s \in Sources |-> 0]
  /\ events = <<>>
  /\ seenEvents = {}
  /\ eventCh = <<>>
  /\ pastEventsCollected = FALSE
  /\ wg = 2
  /\ mu = "free"
  /\ arrival = <<>>
  /\ discarded = 0
  /\ dpc = "wait"
  /\ result = "-"
  /\ printed = <<>>
  /\ useRunFilter \in runFlags
  /\ runID = initRunID(useRunFilter, workflowJob)
  /\ filterPattern = <<>>
  /\ logStreamNamePrefix = ""
  /\ updateErr = [s \in Sources |-> "-"]
  /\ stage = "session"
  /\ token = DeepLink
  /\ jobID = extractJobID(DeepLink)
  /\ setupErr = "-"
  /\ resources = <<>>
  /\ config = <<>>
  /\ discoverErr = "-"
  /\ ToolsIdle

\* The sessions of every invocation, without the --run flag.
Init == SessionInit(Invocations, {FALSE})

Next ==
  \/ \E s \in Sources : Fetcher(s)
  \/ Driver
  \/ RefreshTick
  \/ RefreshExit
  \/ Cancel
  \/ Tick

Spec == Init /\ [][Next]_vars

\* Goroutines are scheduled fairly and time passes; cancellation and the
\* refresh ticks are not forced.
FairSpec ==
  /\ Spec
  /\ \A s \in Sources : WF_vars(Fetcher(s))
  /\ WF_vars(Driver)
  /\ WF_vars(Tick)

\* A one-shot session: the invocations without --watch.  The actions left
\* out of the next-state relation are never enabled in such a session (the
\* driver never reaches the live loop).
OneShotInit == Init /\ ~opts.Watch

OneShotNext ==
  \/ \E s \in Sources : Fetcher(s)
  \/ DriverLock
  \/ DriverDrain
  \/ RefreshTick
  \/ RefreshExit
  \/ Cancel
  \/ Tick

OneShotFairSpec ==
  /\ OneShotInit /\ [][OneShotNext]_vars
  /\ \A s \in Sources : WF_vars(Fetcher(s))
  /\ WF_vars(DriverLock \/ DriverDrain)
  /\ WF_vars(Tick)

\* The watch sessions with the default interval, with and without --run.
RunFilterInit == SessionInit({<<"5s", "2h">>}, BOOLEAN)

RunFilterSpec == RunFilterInit /\ [][Next]_vars

\* The command at its start: nothing has been done yet.
CommandStart ==
  /\ stage = "start"
  /\ jobID = <<>>
  /\ setupErr = "-"
  /\ opts = NoOptions
  /\ useRunFilter = FALSE
  /\ runID = ""
  /\ config = <<>>
  /\ discoverErr = "-"
  /\ now = SessionStart
  /\ cancelled = FALSE
  /\ workflowJob = NilJob
  /\ instanceID = ""
  /\ everResolved = FALSE
  /\ lastRefresh = NoRefresh
  /\ refreshPc = "idle"
  /\ refreshAt = 0
  /\ pc = [s \in Sources |-> "idle"]
  /\ StartTime = [s \in Sources |-> Nil]
  /\ lastTimestamp = [s \in Sources |-> 0]
  /\ firstPassDone = [s \in Sources |-> FALSE]
  /\ pageEvents = [s \in Sources |-> <<>>]
  /\ pagesLeft = [s \in Sources |-> 0]
  /\ wakeAt = [s \in Sources |-> 0]
  /\ err = [s \in Sources |-> "-"]
  /\ pollStarts = [s \in Sources |-> <<>>]
  /\ iterations = [s \in Sources |-> 0]
  /\ filterPattern = <<>>
  /\ logStreamNamePrefix = ""
  /\ updateErr = [s \in Sources |-> "-"]
  /\ events = <<>>
  /\ seenEvents = {}
  /\ eventCh = <<>>
  /\ pastEventsCollected = FALSE
  /\ wg = 0
  /\ mu = "free"
  /\ arrival = <<>>
  /\ discarded = 0
  /\ dpc = "idle"
  /\ result = "-"
  /\ printed = <<>>

\* RunE has been called with a token.  The behaviours end where the
\* session begins, in the states of Init (or of Init with another token or
\* configuration).
SetupInit ==
  CommandStart /\ token \in Tokens /\ resources = <<>> /\ ToolsIdle

SetupNext == GetStackOutputs \/ ExtractJobID \/ FetcherInit

\* discoverResources is about to be called, the tagging API and the
\* AppRunner API ready to answer with one of DiscoveryInputs.
DiscoveryInit ==
  CommandStart /\ token = DeepLink /\ resources \in DiscoveryInputs /\ ToolsIdle

DiscoveryNext == DiscoverResources \/ DiscoverResourcesTiered

DiscoverySpec == DiscoveryInit /\ [][DiscoveryNext]_vars

\* A watch session (--watch 5s) in its live phase whose driver has fallen
\* behind: the backlog was empty, both fetchers are about to wake up for
\* their second poll, and the live channel is full of events that earlier
\* polls delivered and the driver has not received yet.  (A session gets
\* here from Init when its sources hold that many events; the pending
\* events are older than the events of EventIds and numbered below them.)
PendingIds(n) == [i \in 1..n |-> 0 - i]

LiveInit ==
  /\ opts = LogOptions("5s", "2h")
  /\ eventCh = PendingIds(eventChCap)
  /\ arrival = PendingIds(eventChCap)
  /\ seenEvents = Range(PendingIds(eventChCap))
  /\ now = SessionStart
  /\ cancelled = FALSE
  /\ workflowJob = QueuedJob
  /\ instanceID = TheInstance
  /\ everResolved = TRUE
  /\ lastRefresh = NoRefresh
  /\ refreshPc = "running"
  /\ refreshAt = SessionStart + RefreshIntervalMs
  /\ pc = [s \in Sources |-> "sleep"]
  /\ wakeAt = [s \in Sources |-> SessionStart]
  /\ StartTime = [s \in Sources |-> SessionStart - CursorEpsilonMs]
  /\ lastTimestamp = [s \in Sources |-> 0]
  /\ firstPassDone = [s \in Sources |-> TRUE]
  /\ pageEvents = [s \in Sources |-> <<>>]
  /\ pagesLeft = [s \in Sources |-> 0]
  /\ err = [s \in Sources |-> "-"]
  /\ pollStarts = [s \in Sources |-> <<QueuedJob.CreatedAt - CreatedAtSlackMs>>]
  /\ iterations = [s \in Sources |-> 1]
  /\ events = <<>>
  /\ pastEventsCollected = TRUE
  /\ wg = 0
  /\ mu = "free"
  /\ discarded = 0
  /\ dpc = "live"
  /\ result = "-"
  /\ printed = <<>>
  /\ useRunFilter = FALSE
  /\ runID = ""
  /\ filterPattern =
       <<[field |-> "job_id", value |-> Itoa(QueuedJob.ID)],
         [field |-> "message", value |-> "*" \o TheInstance \o "*"]>>
  /\ logStreamNamePrefix = TheInstance \o "/"
  /\ updateErr = [s \in Sources |-> "-"]
  /\ stage = "session"
  /\ token = DeepLink
  /\ jobID = extractJobID(DeepLink)
  /\ setupErr = "-"
  /\ resources = <<>>
  /\ config = <<>>
  /\ discoverErr = "-"
  /\ ToolsIdle

LiveNext ==
  \/ \E s \in Sources : Fetcher(s)
  \/ DriverRecv
  \/ DriverCtxDone
  \/ DriverIdle
  \/ RefreshTick
  \/ RefreshExit
  \/ Cancel
  \/ Tick

LiveFairSpec ==
  /\ LiveInit /\ [][LiveNext]_vars
  /\ \A s \in Sources : WF_vars(Fetcher(s))
  /\ WF_vars(DriverRecv \/ DriverCtxDone \/ DriverIdle)
  /\ WF_vars(Tick)

\* The watch sessions that start with the workflow job known and without
\* an instance id.
LateInstanceInit ==
  Init /\ opts.Watch /\ workflowJob = QueuedJob /\ instanceID = ""

LateInstanceFairSpec ==
  /\ LateInstanceInit /\ [][Next]_vars
  /\ \A s \in Sources : WF_vars(Fetcher(s))
  /\ WF_vars(Driver)
  /\ WF_vars(Tick)

SetupSpec == SetupInit /\ [][SetupNext]_vars

\* RunE of interrupt or connect after getStackOutputs and extractJobID,
\* with every combination of the flags (connect has only the first).
InterruptInit ==
  /\ CommandStart /\ token = DeepLink /\ resources = <<>>
  /\ DoctorIdle /\ LintIdle /\ BatchIdle
  /\ command \in {"interrupt", "connect"}
  /\ wait \in BOOLEAN
  /\ clean \in BOOLEAN /\ skipChecks \in BOOLEAN
  /\ command = "connect" => clean /\ ~skipChecks
  /\ ipc = "lookup" /\ lookups = <<>> /\ lookupWake = 0 /\ jobInstanceID = "-"
  /\ described = <<>> /\ roleCreated = FALSE /\ templates = 0
  /\ deleteAttempts = 0 /\ experiment = "none" /\ polls = 0 /\ cmdErr = "-"

InterruptNext ==
  \/ GetInstanceID
  \/ LookupSleep
  \/ GetCallerIdentity
  \/ PreflightChecks
  \/ ValidateInstance
  \/ createSpotInterruption
  \/ monitorExperiment
  \/ DescribeInstanceInformation
  \/ Cancel

InterruptSpec == InterruptInit /\ [][InterruptNext]_vars

\* StackDoctor.Run is called.
DoctorInit ==
  /\ CommandStart /\ token = DeepLink /\ resources = <<>>
  /\ InterruptIdle /\ LintIdle /\ BatchIdle
  /\ docPc = "run" /\ workspace = <<>> /\ doctorOutputs = <<>>
  /\ ran = <<>> /\ zip = <<>> /\ docErr = "-"

DoctorNext ==
  \/ MkdirTemp
  \/ loadStackOutputs
  \/ RunCheck
  \/ saveResults
  \/ createZipFile
  \/ Cancel

DoctorSpec == DoctorInit /\ [][DoctorNext]_vars

\* The verdicts are about to be passed on a list of at most MaxDiags
\* diagnostics.
LintInit ==
  /\ CommandStart /\ token = DeepLink /\ resources = <<>>
  /\ InterruptIdle /\ DoctorIdle /\ BatchIdle
  /\ diags \in UNION {[1..n -> Severities] : n \in 0..MaxDiags}
  /\ lintResult = <<>>

LintSpec == LintInit /\ [][Lint]_vars

\* The locks goroutine g holds: a fetcher holds the collector's mutex
\* inside add, the refresh goroutine never holds one.
LocksHeld(g) == IF mu = g THEN {"collector.mu"} ELSE {}

\* The watch sessions (--watch 5s) that start with the job and the
\* instance id known, with the reads of the job context in updateInput as
\* steps of their own, interleaved with the refresh goroutine.  Time
\* passes only while both fetchers sleep (or have returned).
JobContextInit ==
  SessionInit({<<"5s", "2h">>}, {FALSE})
    /\ workflowJob = QueuedJob /\ instanceID = TheInstance

JobContextNext ==
  \/ \E s \in Sources :
       \/ CheckInput(s) \/ BuildInput(s) \/ NextPageErr(s) \/ NextPageOk(s)
       \/ Add(s) \/ EndPoll(s)
  \/ Driver
  \/ RefreshTick
  \/ RefreshExit
  \/ Cancel
  \/ Tick /\ \A s \in Sources : pc[s] \in {"sleep", "returned"}

JobContextSpec == JobContextInit /\ [][JobContextNext]_vars

(* ------------------------------ claims --------------------------------- *)
Printed(e) == \E i \in DOMAIN printed : printed[i].id = e
PrintedIn(e, phase) ==
  \E i \in DOMAIN printed : printed[i].id = e /\ printed[i].phase = phase
BacklogPrinted == dpc \in {"live", "returned"}

\* C1: every event id is printed at most once over the whole session,
\* backlog output and live output together, whatever is redelivered.
ExactlyOnceEmission ==
  \A i, j \in DOMAIN printed : i # j => printed[i].id # printed[j].id

\* C1 witness: an event that was delivered again and dropped by add has
\* been printed.
ExactlyOnceWitness == discarded # 0 /\ Printed(discarded)

\* C2: two backlog events with different timestamps are printed in the
\* order of their timestamps.
BacklogOrdering ==
  \A i, j \in DOMAIN printed :
    (/\ printed[i].phase = "backlog" /\ printed[j].phase = "backlog"
     /\ Timestamp(printed[i].id) < Timestamp(printed[j].id)) => i < j

\* C2 witness: the backlog is printed and two of its events arrived at the
\* collector in the reverse order of their timestamps.
BacklogOrderingWitness ==
  /\ BacklogPrinted
  /\ \E i, j \in DOMAIN arrival :
       /\ i < j /\ Timestamp(arrival[i]) > Timestamp(arrival[j])
       /\ PrintedIn(arrival[i], "backlog") /\ PrintedIn(arrival[j], "backlog")

\* C3: an event is in the live channel, or printed as a live event, only
\* when the driver has printed the whole backlog; live lines come after all
\* backlog lines.
PhaseBarrier ==
  /\ (eventCh # <<>> \/ \E i \in DOMAIN printed : printed[i].phase = "live") =>
       /\ BacklogPrinted
       /\ \A k \in DOMAIN events : PrintedIn(events[k], "backlog")
  /\ \A i, j \in DOMAIN printed :
       (printed[i].phase = "live" /\ printed[j].phase = "backlog") => j < i

\* C3 witness: a live event is printed after a backlog that is not empty.
PhaseBarrierWitness ==
  /\ events # <<>>
  /\ \E i \in DOMAIN printed : printed[i].phase = "live"

\* C4: in a watch session that is not cancelled, every event the collector
\* accepted is eventually printed.
NoGapAtTransition ==
  \A e \in EventIds :
    (opts.Watch /\ e \in seenEvents) ~> (cancelled \/ Printed(e))

\* C5: a one-shot session eventually terminates, whatever the outcome of
\* the first poll of each source (sessions that get cancelled are left out).
OneShotTerminates == (~opts.Watch) ~> (dpc = "returned" \/ cancelled)

\* C6: in watch mode a failed poll does not end the fetcher: while the
\* session is not cancelled no fetcher has returned.
WatchFetcherKeepsPolling ==
  (opts.Watch /\ ~cancelled) => \A s \in Sources : pc[s] # "returned"

\* C7: in a one-shot session, once a poll has failed the caller eventually
\* gets an error from FetchLogs (sessions that get cancelled are left out).
OneShotErrorSurfaced ==
  (~opts.Watch /\ \E s \in Sources : err[s] = "error")
    ~> (cancelled \/ (dpc = "returned" /\ result \notin {"-", "nil"}))

\* C8: for each source, every poll starts strictly later than the poll
\* before it, and when a poll has completed the start time kept for the
\* next poll is strictly later than the start time of that poll.
CursorProgress ==
  \A s \in Sources :
    /\ \A i \in 1..(Len(pollStarts[s]) - 1) :
         pollStarts[s][i + 1] > pollStarts[s][i]
    /\ (pollStarts[s] # <<>> /\ pc[s] # "page" /\ err[s] # "error") =>
         StartTime[s] > pollStarts[s][Len(pollStarts[s])]

\* C9: in a one-shot session where the instance id is never resolved, the
\* instance fetcher issues no poll, signals caught-up exactly once and
\* returns, and the session terminates once the application fetcher has
\* finished its pass.
MissingContextResilience ==
  /\ []((~opts.Watch /\ ~everResolved) => pollStarts["instance"] = <<>>)
  /\ []((~opts.Watch /\ ~everResolved /\ pc["instance"] = "returned") =>
          (firstPassDone["instance"] /\ err["instance"] = "nil"))
  /\ [](~opts.Watch => wg = Cardinality({s \in Sources : ~firstPassDone[s]}))
  /\ (~opts.Watch /\ pc["application"] = "returned" /\ err["application"] = "nil")
       ~> (dpc = "returned" \/ everResolved)

\* C9 witness: a one-shot session has returned, the application source was
\* polled, and the instance fetcher made its iteration without an instance
\* id and without a poll.
MissingContextWitness ==
  /\ ~opts.Watch /\ ~everResolved /\ dpc = "returned"
  /\ pollStarts["application"] # <<>>
  /\ iterations["instance"] = 1 /\ pollStarts["instance"] = <<>>

\* C10: the first poll of each source starts at the session start minus the
\* `since` duration.
InitialWindowFromSince ==
  \A s \in Sources : pollStarts[s] # <<>> => pollStarts[s][1] = opts.StartTime

\* C11: the first clause of the filter of every application poll names the
\* run id of the job's workflow metadata when useRunFilter is set, and the
\* numeric id of the job when it is not.
FilterTargetsJobOrRun ==
  filterPattern # <<>> =>
    filterPattern[1] =
      IF useRunFilter
      THEN [field |-> "run_id", value |-> Itoa(workflowJob.RunID)]
      ELSE [field |-> "job_id", value |-> Itoa(workflowJob.ID)]

\* C12: Init never returns an error, whatever the two fetches of the job
\* context do.
ContextResolutionNeverFatal == setupErr # "init"

\* The token without its query string, cut after its last "/".
FinalPathSegment(input) ==
  LET q == Index(input, "?")
      noQuery == IF q = 0 THEN input ELSE SubSeq(input, 1, q - 1)
      slashes == {i \in DOMAIN noQuery : noQuery[i] = "/"}
      last == IF slashes = {} THEN 0
              ELSE CHOOSE i \in slashes : \A j \in slashes : j <= i
  IN SubSeq(noQuery, last + 1, Len(noQuery))

\* A token is URL-shaped when it parses as an https URL with a path.
URLShaped(input) ==
  /\ ~urlParse(input).err
  /\ urlParse(input).Scheme = "https"
  /\ urlParse(input).Path # <<>>

MalformedTokenRejected ==
  (stage = "session" \/ setupErr = "init") => jobID # <<>>

\* C13: a fetcher that holds the collector lock inside add, blocked on a
\* full live channel, eventually gets out of add and releases the lock.
SubmitReturns ==
  \A s \in Sources : (mu = s) ~> (mu # s)

\* C14: a fetcher that wakes up from its sleep with the session cancelled
\* stops; it does not go back to sleep for another watch interval.
FetcherStopsOnCancel ==
  [][\A s \in Sources :
       (cancelled /\ pc[s] = "sleep") =>
         ~(pc'[s] = "sleep" /\ wakeAt'[s] # wakeAt[s])]_vars

\* C15: in watch mode the driver returns only when the session is
\* cancelled, and then with the context's error; every event in the live
\* channel is eventually printed unless the session is cancelled; once the
\* session is cancelled the driver eventually returns.
WatchSessionLifetime ==
  /\ []((opts.Watch /\ dpc = "returned") => (cancelled /\ result = "ctxErr"))
  /\ \A e \in EventIds :
       (opts.Watch /\ e \in Range(eventCh)) ~> (cancelled \/ Printed(e))
  /\ (opts.Watch /\ cancelled) ~> (dpc = "returned")

\* C16: the instance fetcher issues no poll without an instance id: every
\* poll it has issued carries the prefix of the resolved instance; and once
\* the id is resolved, a fetcher that wakes up issues a poll (unless the id
\* is lost again or the session is over).  The wake-ups are those within the
\* iterations and the time that are modelled.
LateInstanceResolution ==
  /\ [](logStreamNamePrefix \in {"", TheInstance \o "/"})
  /\ [](pollStarts["instance"] # <<>> =>
          (everResolved /\ logStreamNamePrefix = TheInstance \o "/"))
  /\ (/\ instanceID # "" /\ pc["instance"] = "sleep"
      /\ iterations["instance"] < MaxIterations
      /\ wakeAt["instance"] <= SessionStart + MaxTime)
       ~> (pollStarts["instance"] # <<>> \/ instanceID = "" \/ ~Running)

\* C16 witness: the instance fetcher skipped a poll for want of an instance
\* id and, the id resolved by the refresh loop, has polled that instance.
LateInstanceWitness ==
  /\ opts.Watch /\ updateErr["instance"] = "instance ID not available yet"
  /\ pollStarts["instance"] # <<>>
  /\ logStreamNamePrefix = TheInstance \o "/"

\* C17: a one-shot session that collected no event prints nothing and
\* returns nil, and it does return once both fetchers have finished their
\* pass without error.
EmptyOneShotSucceeds ==
  /\ []((~opts.Watch /\ dpc = "returned" /\ arrival = <<>>) =>
          (printed = <<>> /\ result = "nil"))
  /\ (/\ ~opts.Watch /\ arrival = <<>>
      /\ \A s \in Sources : pc[s] = "returned" /\ err[s] = "nil")
       ~> (dpc = "returned")

\* C17 witness: a one-shot session has returned nil after a poll of the
\* application source that brought no event.
EmptyOneShotWitness ==
  /\ ~opts.Watch /\ dpc = "returned" /\ result = "nil"
  /\ arrival = <<>> /\ printed = <<>>
  /\ pollStarts["application"] # <<>>

\* C20: discoverResources returns either a configuration and no error, or
\* an error and no configuration; and the configuration it returns has the
\* service address, the bucket and the log group all non-empty.
DiscoveryAllOrNothing ==
  stage \in {"discovered", "discoveredTiered"} =>
    /\ (config = <<>>) # (discoverErr = "nil")
    /\ config # <<>> =>
         /\ config[1].AppRunnerServiceArn # <<>>
         /\ config[1].BucketConfig # <<>>
         /\ config[1].EC2LogGroupArn # <<>>

\* C20 witness: no configuration is returned for a listing that has the
\* service and the log group and a bucket without a name.
DiscoveryWitness ==
  /\ stage = "discovered" /\ config = <<>> /\ discoverErr = "no resources found"
  /\ ~resources.tagged.fails
  /\ classifyAllByTag(EmptyConfig, resources.tagged.page).AppRunnerServiceArn # <<>>
  /\ classifyAllByTag(EmptyConfig, resources.tagged.page).EC2LogGroupArn # <<>>

\* C21: in an interrupt command without --skip-checks, the FIS role is
\* created, an experiment template is created and an experiment is started
\* only after DescribeInstances has reported the target instance, with
\* lifecycle spot and in state running.
InterruptPreValidation ==
  (command = "interrupt" /\ ~skipChecks
     /\ (roleCreated \/ templates > 0 \/ experiment # "none"))
    => /\ described # <<>>
       /\ described[1].found
       /\ described[1].lifecycle = "spot"
       /\ described[1].state = "running"

\* C21 witness: the checks were made and passed, and the experiment runs.
InterruptPreValidationWitness ==
  /\ command = "interrupt" /\ ~skipChecks
  /\ described # <<>> /\ described[1].state = "running"
  /\ roleCreated /\ templates = 1 /\ experiment = "started"

\* C22: with clean on, when the interrupt command has returned, every
\* experiment template it created has had a delete attempt, whichever way
\* the command ended after the creation.
InterruptCleanup ==
  (command = "interrupt" /\ clean /\ ipc = "returned")
    => deleteAttempts >= templates

\* RunE has left the lookup loop with an instance id.
Proceeded ==
  \/ ipc \in {"identity", "preflight", "validate", "create", "monitor", "describe"}
  \/ ipc = "returned" /\ cmdErr \notin {"instance ID not found", "read"}

\* C23: without the wait flag a lookup that fails ends the command after
\* exactly one lookup; with the flag the lookup is repeated 5 seconds after
\* each failure, the command proceeds at the first lookup that succeeds,
\* and it never proceeds after a read that failed.
WaitForInstanceID ==
  /\ (~wait /\ lookups # <<>> /\ lookups[1].outcome = "geterr")
       => (Len(lookups) = 1 /\ ipc = "returned"
           /\ cmdErr = "instance ID not found")
  /\ \A i \in 2..Len(lookups) :
       /\ wait
       /\ lookups[i - 1].outcome = "geterr"
       /\ lookups[i].at = lookups[i - 1].at + LookupIntervalMs
  /\ (wait /\ ipc = "sleep") => lookups[Len(lookups)].outcome = "geterr"
  /\ Proceeded <=>
       (lookups # <<>> /\ lookups[Len(lookups)].outcome = "found")
  /\ (lookups # <<>> /\ lookups[Len(lookups)].outcome = "readerr")
       => (ipc = "returned" /\ cmdErr = "read" /\ jobInstanceID = "-")

\* C23 witness: with the flag, two lookups failed, the third one, 10
\* seconds after the first, succeeded, and the command went on.
WaitForInstanceIDWitness ==
  /\ wait /\ Len(lookups) = 3
  /\ lookups[2].outcome = "geterr" /\ lookups[3].outcome = "found"
  /\ lookups[3].at = SessionStart + 2 * LookupIntervalMs
  /\ Proceeded /\ jobInstanceID = TheInstance

\* C24: once the workspace exists and the stack outputs are loaded, Run
\* calls the five checks in their order whatever their results, and then
\* writes checks.json and the archive: Run fails only when writing
\* checks.json or making the archive fails.
DoctorAlwaysBundles ==
  /\ (docPc \in {"save", "zip"} \/ (docPc = "returned" /\ doctorOutputs # <<>>))
       => [i \in DOMAIN ran |-> ran[i].name] = CheckOrder
  /\ docPc = "zip" => "checks.json" \in workspace[1]
  /\ (docPc = "returned" /\ doctorOutputs # <<>>)
       => /\ docErr \in {"nil", "failed to save results", "failed to create zip file"}
          /\ docErr = "nil" => zip = <<{"checks.json", "logs"}>>
          /\ (\A i \in DOMAIN ran : ran[i].status # "nodir")
               => (zip = <<>> \/ docErr = "nil")

\* C24 witness: every check failed and the archive was written.
DoctorAlwaysBundlesWitness ==
  /\ docPc = "returned" /\ docErr = "nil"
  /\ Len(ran) = Len(CheckOrder)
  /\ \A i \in DOMAIN ran : ran[i].status = "fail"
  /\ zip = <<{"checks.json", "logs"}>>

\* C25: isValidDiagnostics is true exactly for the lists without a
\* diagnostic of severity error, and hasErrors is its negation.
LintValidity ==
  lintResult # <<>> =>
    /\ lintResult[1].valid = (\A i \in DOMAIN diags : diags[i] # "error")
    /\ lintResult[1].hasErrors = ~lintResult[1].valid

\* C25 witness: a list of warnings only was found valid.
LintValidityWitness ==
  /\ lintResult # <<>> /\ lintResult[1].valid
  /\ diags = <<"warning", "warning">>

\* C26: the phase flag of the collector changes only from BACKFILL to LIVE
\* (so at most once, and never back), and only when both fetchers have
\* signalled their first pass; an event is appended to the backlog buffer
\* only in phase BACKFILL and sent to the live channel only in phase LIVE.
PhaseTransition ==
  [][/\ (pastEventsCollected' # pastEventsCollected)
          => (~pastEventsCollected /\ pastEventsCollected' /\ wg = 0
              /\ \A s \in Sources : firstPassDone[s])
     /\ (Len(events') > Len(events)) => ~pastEventsCollected
     /\ (Len(eventCh') > Len(eventCh)) => pastEventsCollected]_vars

\* C26 witness: the phase is LIVE after a backlog that held an event, and
\* an event is in the live channel.
PhaseTransitionWitness ==
  /\ pastEventsCollected /\ wg = 0
  /\ events # <<>> /\ eventCh # <<>>

\* C27: the barrier counter is never negative, each fetcher signals its
\* first pass at most once, and a fetcher that has returned has signalled
\* it, however its first pass ended.
CaughtUpSignal ==
  /\ wg >= 0
  /\ wg = 2 - Cardinality({s \in Sources : firstPassDone[s]})
  /\ \A s \in Sources : pc[s] = "returned" => firstPassDone[s]

\* C28: in a session with the run filter, when the workflow job is known
\* the run id is non-empty and is the run id of that job.
RunIdDerivation ==
  (useRunFilter /\ workflowJob # NilJob)
    => (runID # "" /\ runID = Itoa(workflowJob.RunID))

\* C29: a fetcher is never about to read the job context in updateInput
\* while the refresh goroutine is about to write it, unless the two hold a
\* common lock.
JobContextSynchronised ==
  \A s \in Sources :
    (/\ Running /\ refreshPc = "running" /\ now >= refreshAt
     /\ \/ pc[s] = "build"
        \/ /\ iterations[s] < MaxIterations
           /\ pc[s] = "loop" \/ (pc[s] = "sleep" /\ now >= wakeAt[s]))
      => LocksHeld(s) \cap LocksHeld("refresh") # {}

\* C30: the stream prefix of every instance poll is a non-empty instance
\* id followed by "/", and the message clause of every application filter
\* mentions a non-empty instance id.
NoEmptyInstanceFilter ==
  /\ logStreamNamePrefix \in {"", TheInstance \o "/"}
  /\ \A i \in DOMAIN filterPattern :
       filterPattern[i].field = "message"
         => filterPattern[i].value = "*" \o TheInstance \o "*"

(* ------------------- the refresh loop, tick after tick ------------------ *)
MaxRefreshes == 2      \* ticks of the refresh goroutine in a session

\* A one-shot session that starts without the job context and is still
\* running after MaxRefreshes periods of the refresh ticker: the fetchers
\* and the driver take their steps at any time, before, between or after
\* the ticks.
RefreshInit ==
  SessionInit({<<"", "30m">>}, {FALSE}) /\ workflowJob = NilJob /\ instanceID = ""

RefreshNext ==
  \/ \E s \in Sources : Fetcher(s)
  \/ DriverLock
  \/ DriverDrain
  \/ RefreshTick
  \/ RefreshExit
  \/ Cancel
  \/ TickTo(SessionStart + MaxRefreshes * RefreshIntervalMs)

RefreshSpec == RefreshInit /\ [][RefreshNext]_vars

\* C31: the instance fetcher makes a request only in a step that builds its
\* input while the workflow job and a non-empty instance id are both
\* present; an iteration that starts without one of them is skipped: it
\* makes no request, hands no event to the collector and ends the cycle.
InstancePreconditions ==
  [][LET s == "instance"
         present == workflowJob # NilJob /\ instanceID # ""
     IN  /\ pollStarts'[s] # pollStarts[s] => present
         /\ (iterations'[s] # iterations[s] /\ ~present)
              => /\ pollStarts'[s] = pollStarts[s]
                 /\ pc'[s] \in {"sleep", "returned"}
                 /\ arrival' = arrival /\ events' = events
                 /\ eventCh' = eventCh /\ seenEvents' = seenEvents
         /\ arrival' # arrival /\ SourceOf(arrival'[Len(arrival')]) = s
              => pollStarts[s] # <<>> /\ pc[s] = "page"]_vars

\* The instance fetcher skipped one cycle and made a request in another.
InstancePreconditionsWitness ==
  /\ updateErr["instance"] # "-"
  /\ pollStarts["instance"] # <<>>
  /\ \E i \in DOMAIN arrival : SourceOf(arrival[i]) = "instance"

BacklogTiesStable ==
  \A i, j \in DOMAIN printed :
    (/\ i < j
     /\ printed[i].phase = "backlog" /\ printed[j].phase = "backlog"
     /\ Timestamp(printed[i].id) = Timestamp(printed[j].id))
      => \E k, l \in DOMAIN arrival :
           k < l /\ arrival[k] = printed[i].id /\ arrival[l] = printed[j].id

\* C34: a poll starts with no timestamp observed; every event of its pages
\* raises the observed maximum; when the pages are exhausted the next start
\* time is that maximum plus 1, or the current time minus 1000 ms when no
\* event was observed.  A skipped cycle and a failed poll leave the cursor
\* where it was (a skipped cycle may give a cursor that was never set its
\* initial value, the creation time of the job minus 10 s).
CursorAdvance ==
  [][\A s \in Sources :
       LET starts == iterations'[s] # iterations[s]
           requests == Len(pollStarts'[s]) > Len(pollStarts[s])
           ranges == pageEvents[s] # <<>> /\ pageEvents'[s] = Tail(pageEvents[s])
           ends == pc[s] = "page" /\ pc'[s] # "page"
           e == Head(pageEvents[s])
       IN  /\ requests => lastTimestamp'[s] = 0
           /\ (starts /\ ~requests)
                => \/ StartTime'[s] = StartTime[s]
                   \/ /\ StartTime[s] = Nil /\ workflowJob # NilJob
                      /\ StartTime'[s] = workflowJob.CreatedAt - 10000
           /\ ranges
                => lastTimestamp'[s] =
                     IF Timestamp(e) > lastTimestamp[s]
                     THEN Timestamp(e) ELSE lastTimestamp[s]
           /\ lastTimestamp'[s] # lastTimestamp[s] => requests \/ ranges
           /\ (ends /\ err'[s] = "error") => StartTime'[s] = StartTime[s]
           /\ (ends /\ err'[s] # "error")
                => StartTime'[s] =
                     IF lastTimestamp[s] > 0
                     THEN lastTimestamp[s] + 1 ELSE now - 1000
           /\ StartTime'[s] # StartTime[s] => starts \/ ends]_vars

\* One source finished a poll that held events and, later, a poll that held
\* none; the other source skipped a cycle.
CursorAdvanceWitness ==
  \E s, t \in Sources :
    /\ Len(pollStarts[s]) = 2 /\ pc[s] \in {"sleep", "returned"}
    /\ err[s] # "error"
    /\ \E i \in DOMAIN arrival :
         /\ SourceOf(arrival[i]) = s
         /\ pollStarts[s][2] = Timestamp(arrival[i]) + 1
    /\ StartTime[s] = now - 1000
    /\ updateErr[t] # "-"

\* C35: a tick of the refresh loop fetches the workflow job exactly when it
\* is absent, and fetches the instance id in every case; once the workflow
\* job is set no step changes it, and nothing but a tick fetches.
MetadataFrozen ==
  [][/\ workflowJob # NilJob => workflowJob' = workflowJob
     /\ refreshAt' # refreshAt
          => /\ lastRefresh'.job = (workflowJob = NilJob)
             /\ lastRefresh'.instance \in {"failed", "returned"}
             /\ workflowJob' \in {workflowJob, QueuedJob}
     /\ lastRefresh' # lastRefresh => refreshAt' # refreshAt]_vars

\* The first tick found the workflow job; the second tick did not fetch it
\* and fetched the instance id.
MetadataFrozenWitness ==
  /\ refreshAt = SessionStart + 3 * RefreshIntervalMs
  /\ workflowJob = QueuedJob
  /\ ~lastRefresh.job
  /\ lastRefresh.instance = "returned" /\ instanceID = TheInstance

\* batchInstances on every list of at most MaxInstances ids, for the sizes
\* up to MaxBatchSize and for the size createSpotInterruption passes.
BatchInit ==
  /\ CommandStart /\ token = DeepLink /\ resources = <<>>
  /\ InterruptIdle /\ DoctorIdle /\ LintIdle
  /\ instanceIDs \in UNION {[1..n -> {"i-1", "i-2"}] : n \in 0..MaxInstances}
  /\ batchSize \in (1..MaxBatchSize) \cup {fisTargetLimit}
  /\ instanceIDBatches = <<>>

BatchSpec == BatchInit /\ [][Batch]_vars

\* The one-shot sessions as they run up to a cancellation and in the
\* instant that follows it: the goroutines take their steps in any order,
\* and no time passes once the context is done.
CancelNext ==
  \/ \E s \in Sources : Fetcher(s)
  \/ DriverLock
  \/ DriverDrain
  \/ RefreshTick
  \/ RefreshExit
  \/ Cancel
  \/ Tick /\ ~cancelled

CancelSpec == OneShotInit /\ [][CancelNext]_vars

\* C36: once the session is cancelled the refresh loop performs no fetch:
\* no step taken after the cancellation is a tick of the loop, and none
\* changes the job context.
RefreshStopsOnCancel ==
  [][cancelled => /\ refreshAt' = refreshAt
                  /\ lastRefresh' = lastRefresh
                  /\ workflowJob' = workflowJob
                  /\ instanceID' = instanceID]_vars

\* C37: the events printed in the live phase, followed by the events still
\* in the channel, are the events the collector accepted after the backlog
\* was closed, in the order of their acceptance, whatever their timestamps.
LiveArrivalOrder ==
  LET IsLive(p) == p.phase = "live"
      live == SelectSeq(printed, IsLive)
      AfterBacklog(e) == \A k \in DOMAIN events : events[k] # e
      accepted == SelectSeq(arrival, AfterBacklog)
  IN  pastEventsCollected
        => [i \in DOMAIN live |-> live[i].id] \o eventCh = accepted

\* Two live events are printed, the one with the greater timestamp first.
LiveArrivalOrderWitness ==
  \E i, j \in DOMAIN printed :
    /\ i < j /\ printed[i].phase = "live" /\ printed[j].phase = "live"
    /\ Timestamp(printed[i].id) > Timestamp(printed[j].id)

RECURSIVE Concat(_)
Concat(batches) ==
  IF batches = <<>> THEN <<>> ELSE Head(batches) \o Concat(Tail(batches))

\* C39: the batches batchInstances returns are not empty, hold at most
\* size ids each, and put end to end give the list it was given; the empty
\* list gives no batch.
InstanceBatching ==
  instanceIDBatches # <<>> =>
    LET batches == instanceIDBatches[1] IN
      /\ \A k \in DOMAIN batches :
           batches[k] # <<>> /\ Len(batches[k]) <= batchSize
      /\ Concat(batches) = instanceIDs
      /\ instanceIDs = <<>> => batches = <<>>

\* A list that does not fill its last batch was split in several batches.
InstanceBatchingWitness ==
  /\ instanceIDBatches # <<>>
  /\ Len(instanceIDBatches[1]) = 2
  /\ batchSize = fisTargetLimit
  /\ Len(instanceIDBatches[1][2]) = 1
  /\ instanceIDs = <<"i-1", "i-2", "i-1", "i-1", "i-2", "i-2">>
====
